---- MODULE Spec2Model ----
(***************************************************************************)
(* State-machine model of agents/multi_agent_system.py (the LibrarianAgent *)
(* catalog cache, the TaskTrajectory status machine and the                *)
(* MultiAgentOrchestrator.solve_task loop), of the task runner of run.py   *)
(* with the answers file of utils/dabstep_utils.py, and of the retrying    *)
(* model call of agents/models.py.                                         *)
(*                                                                         *)
(* A thread is a Python caller.  Every method is cut at the shared-state   *)
(* reads/writes and at the remote model calls (self.run), which are the    *)
(* places where another thread can run in between.                         *)
(***************************************************************************)
EXTENDS Integers, Sequences, FiniteSets, TLC

\* ---- bounds of the model ------------------------------------------------
NumThreads == 2
NumPaths == 2
NumTasks == 2
MaxIterations == 2
MaxCalls == 3
MaxSolves == 2
MaxRuns == 2
MaxAppends == 3
MaxChunks == 2
MaxExtracts == 2
MaxItems == 2

Threads == 1..NumThreads
MainThread == CHOOSE t \in Threads : \A u \in Threads : t <= u
Paths == 1..NumPaths
Tasks == 1..NumTasks

\* Python's None, for a catalog reference or a path.
None == 0

\* MultiAgentOrchestrator.ctx_path: the corpus path the orchestrator was built with.
OrchCtxPath == 1

\* StrategistAgent.create_trajectory builds steps=[{"step_id": 1, ...}]: one step.
InitialPlanSteps == 1

\* What the executor's model run can answer to a step: its work or an error text.
ExecutorResults == {"done", "error"}

\* What the strategist's model run can answer in evaluate_and_decide.
Decisions == {"continue", "modify", "fail"}

VARIABLES
    catalog_cache,      \* LibrarianAgent._catalog_cache: None or a reference into objs
    catalog_ctx_path,   \* LibrarianAgent._catalog_ctx_path: None or a path
    objs,               \* the catalog dicts allocated so far; a reference is an index
    runs,               \* number of Librarian model runs started for a catalog build
    shared_catalog,     \* shared_state["catalog"]
    domain_knowledge,   \* shared_state["domain_knowledge"]: task -> "none" | "ok" | "error"
    pc,                 \* per thread: position in the method it executes
    cds,                \* per thread: frame of catalog_data_sources
    st,                 \* per thread: frame of solve_task (with its trajectory)
    calls,              \* number of top-level calls started
    lib_log,            \* completed direct catalog_data_sources calls, in order
    solve_log,          \* completed solve_task calls, in order
    file_exists,        \* the files that exist
    file_content,       \* per file: the pieces of lines written to it, in order
    append_answer_lock, \* dabstep_utils.append_answer_lock: None or its holder
    ap,                 \* per thread: frame of append_answer
    apc,                \* per thread: position in append_answer
    ap_calls,           \* number of append_answer calls started
    ap_log,             \* completed direct append_answer calls, in order
    job,                \* main of run.py: its position, tasks_to_run and loop index
    run_log,            \* the runs of main that have ended, in order
    rt,                 \* LiteLLMModelWithBackOff.__call__: the retry state
    ro,                 \* the read_only_open call being made: its modes and what it did
    box,                \* a BaseCodeAgent: its position and its python_executor
    edk,                \* per thread: frame of a direct extract_domain_knowledge call
    edk_log,            \* completed direct extract_domain_knowledge calls, in order
    boot,               \* main of run.py from parse_args on: environment and progress
    sq,                 \* the question_scorer call being made: its inputs and score
    ev,                 \* the evaluate call being made: its inputs and result
    ls,                 \* the get_directory_listing call being made: its result
    trajectories,       \* shared_state["trajectories"]
    execution_results,  \* shared_state["execution_results"]
    message_history,    \* MultiAgentOrchestrator.message_history
    tracing             \* utils/tracing.py: _tracing_initialized and the call being made

agent_vars == <<catalog_cache, catalog_ctx_path, objs, runs, shared_catalog,
                domain_knowledge, pc, cds, st, calls, lib_log, solve_log>>
append_vars == <<file_exists, file_content, append_answer_lock, ap, apc, ap_calls, ap_log>>
runner_vars == <<append_vars, job, run_log>>
retry_vars == <<rt>>
sandbox_vars == <<ro, box>>
extract_vars == <<edk, edk_log>>
startup_vars == <<boot, ls>>
scorer_vars == <<sq, ev>>
history_vars == <<trajectories, execution_results, message_history>>
tracing_vars == <<tracing>>

\* What the steps of one part of the program leave alone: the other parts.
aux_vars == <<runner_vars, retry_vars, sandbox_vars, extract_vars, startup_vars,
              scorer_vars, history_vars, tracing_vars>>
outside_runner == <<agent_vars, retry_vars, sandbox_vars, extract_vars, startup_vars,
                    scorer_vars, history_vars, tracing_vars>>
outside_retry == <<agent_vars, runner_vars, sandbox_vars, extract_vars, startup_vars,
                   scorer_vars, history_vars, tracing_vars>>
outside_sandbox == <<agent_vars, runner_vars, retry_vars, extract_vars, startup_vars,
                     scorer_vars, history_vars, tracing_vars>>
outside_agents == <<runner_vars, retry_vars, sandbox_vars, startup_vars, scorer_vars,
                    history_vars, tracing_vars>>
outside_startup == <<agent_vars, runner_vars, retry_vars, sandbox_vars, extract_vars,
                     scorer_vars, history_vars, tracing_vars>>
outside_tracing == <<agent_vars, runner_vars, retry_vars, sandbox_vars, extract_vars,
                     startup_vars, scorer_vars, history_vars>>
outside_scorer == <<agent_vars, runner_vars, retry_vars, sandbox_vars, extract_vars,
                    startup_vars, history_vars, tracing_vars>>

vars == <<agent_vars, runner_vars, retry_vars, sandbox_vars, extract_vars, startup_vars,
          scorer_vars, history_vars, tracing_vars>>

librarian_vars == <<catalog_cache, catalog_ctx_path>>
orch_vars == <<shared_catalog, domain_knowledge>>

\* ---- frames ---------------------------------------------------------------
NoCds ==
    [ctx_path |-> None, force_refresh |-> FALSE, ret_to |-> "none",
     catalog_result |-> None, outcome |-> "none",
     had |-> FALSE, cached0 |-> None, path0 |-> None, runs0 |-> 0]

NoSt ==
    [task |-> None, max_iterations |-> 0, iteration |-> 0,
     librarian_findings |-> None, extract_catalog |-> None, cat |-> "none",
     knowledge |-> "none", steps |-> <<>>, current_step |-> 0,
     status |-> "none", executed |-> <<>>, evals |-> 0,
     executor_result |-> "none", decision |-> "none", trace |-> <<>>]

\* The frame after one more role call of solve_task has been made.
Traced(f, role) == [f EXCEPT !.trace = Append(@, role)]

\* ---- LibrarianAgent ---------------------------------------------------------
\* has_catalog(ctx_path)
has_catalog(p) == catalog_cache # None /\ catalog_ctx_path = p

\* get_catalog()
get_catalog == catalog_cache

\* Mutant of CacheHit: force_refresh is not looked at.
CacheHitIgnoringRefresh(p, force) == catalog_cache # None /\ catalog_ctx_path = p

\* Mutant of CacheHit: the cached path is not compared with the requested one.
CacheHitAnyPath(p, force) == ~force /\ catalog_cache # None

\* The cache test at the head of catalog_data_sources.
CacheHit(p, force) == ~force /\ catalog_cache # None /\ catalog_ctx_path = p

\* The dict built on a directory-listing error.
ErrorCatalog(p) == [ctx_path |-> p, error |-> TRUE]

\* The dict built around the Librarian's response.
CatalogResult(p) == [ctx_path |-> p, error |-> FALSE]

\* A caller invokes librarian.catalog_data_sources(p, force) directly.
CatalogCall(t, p, force) ==
    /\ pc[t] = "idle"
    /\ UNCHANGED aux_vars
    /\ calls < MaxCalls
    /\ calls' = calls + 1
    /\ cds' = [cds EXCEPT ![t] = [NoCds EXCEPT !.ctx_path = p, !.force_refresh = force,
                                               !.ret_to = "direct",
                                               !.had = has_catalog(p),
                                               !.cached0 = get_catalog,
                                               !.path0 = catalog_ctx_path,
                                               !.runs0 = runs]]
    /\ pc' = [pc EXCEPT ![t] = "cds_check"]
    /\ UNCHANGED <<librarian_vars, orch_vars, objs, runs, st, lib_log, solve_log>>

\* catalog_data_sources, the cache test: a hit returns the cached dict.
CdsCheck(t) ==
    /\ pc[t] = "cds_check"
    /\ UNCHANGED aux_vars
    /\ IF CacheHit(cds[t].ctx_path, cds[t].force_refresh)
       THEN /\ cds' = [cds EXCEPT ![t].catalog_result = catalog_cache,
                                  ![t].outcome = "hit"]
            /\ pc' = [pc EXCEPT ![t] = "cds_return"]
       ELSE /\ cds' = cds
            /\ pc' = [pc EXCEPT ![t] = "cds_list"]
    /\ UNCHANGED <<librarian_vars, orch_vars, objs, runs, st, calls, lib_log, solve_log>>

\* Mutant of AfterListing: the early return on a listing error is missing, so
\* the error dict falls through to the statements that cache the result.
AfterListingNoReturn(exists) == IF exists THEN "cds_run" ELSE "cds_store_cache"

\* Mutant of AfterListing: a listing error goes on to the statement that
\* sets the path of the cache.
AfterListingStorePath(exists) == IF exists THEN "cds_run" ELSE "cds_store_path"

\* Where catalog_data_sources goes after get_directory_listing: on to the
\* model run, or, on a listing error, straight to the return of the error dict.
AfterListing(exists) == IF exists THEN "cds_run" ELSE "cds_return"

\* What get_directory_listing can find at a path: a directory it can list, no
\* directory, or a directory whose iterdir() raises (no read permission).
DirStates == {"ok", "missing", "unreadable"}

\* The status text of a listing that found no directory at p.
DoesNotExist(p) == <<"Error. Directory does not exist: ", p>>

\* get_directory_listing(p) on a directory in condition dir: the status of the
\* returned dict, or the exception that leaves the function.
get_directory_listing(dir, p) ==
    IF dir = "missing" THEN [raised |-> FALSE, status |-> DoesNotExist(p)]
    ELSE IF dir = "unreadable" THEN [raised |-> TRUE, status |-> <<"PermissionError">>]
    ELSE [raised |-> FALSE, status |-> <<"success">>]

\* 'error' in dir_listing['status'].lower()
ListingError(listing) == listing.status[1] = "Error. Directory does not exist: "

\* catalog_data_sources, get_directory_listing and its error test: a listing
\* error returns a fresh error dict and leaves the cache alone; an exception
\* of the listing leaves catalog_data_sources.
CdsList(t) ==
    /\ pc[t] = "cds_list"
    /\ UNCHANGED aux_vars
    /\ \E dir \in DirStates :
         LET listing == get_directory_listing(dir, cds[t].ctx_path) IN
         IF listing.raised
         THEN /\ cds' = [cds EXCEPT ![t].outcome = "raised"]
              /\ pc' = [pc EXCEPT ![t] = "cds_return"]
              /\ objs' = objs
         ELSE /\ pc' = [pc EXCEPT ![t] = AfterListing(~ListingError(listing))]
              /\ IF ~ListingError(listing)
                 THEN UNCHANGED <<objs, cds>>
                 ELSE /\ objs' = Append(objs, ErrorCatalog(cds[t].ctx_path))
                      /\ cds' = [cds EXCEPT ![t].catalog_result = Len(objs) + 1,
                                            ![t].outcome = "error"]
    /\ UNCHANGED <<librarian_vars, orch_vars, runs, st, calls, lib_log, solve_log>>

\* catalog_data_sources, response = self.run(prompt): the model run starts.
CdsRunStart(t) ==
    /\ pc[t] = "cds_run"
    /\ UNCHANGED aux_vars
    /\ runs' = runs + 1
    /\ pc' = [pc EXCEPT ![t] = "cds_running"]
    /\ UNCHANGED <<librarian_vars, orch_vars, objs, cds, st, calls, lib_log, solve_log>>

\* ... and ends, with a response (wrapped into catalog_result) or an exception.
CdsRunEnd(t) ==
    /\ pc[t] = "cds_running"
    /\ UNCHANGED aux_vars
    /\ \E ok \in BOOLEAN :
         IF ok
         THEN /\ objs' = Append(objs, CatalogResult(cds[t].ctx_path))
              /\ cds' = [cds EXCEPT ![t].catalog_result = Len(objs) + 1,
                                    ![t].outcome = "built"]
              /\ pc' = [pc EXCEPT ![t] = "cds_store_cache"]
         ELSE /\ cds' = [cds EXCEPT ![t].outcome = "raised"]
              /\ pc' = [pc EXCEPT ![t] = "cds_return"]
              /\ objs' = objs
    /\ UNCHANGED <<librarian_vars, orch_vars, runs, st, calls, lib_log, solve_log>>

\* Mutant of CdsStoreCache: the result is never put into the cache.
CdsStoreCacheSkipped(t) ==
    /\ pc[t] = "cds_store_cache"
    /\ UNCHANGED aux_vars
    /\ pc' = [pc EXCEPT ![t] = "cds_store_path"]
    /\ UNCHANGED <<catalog_cache, catalog_ctx_path, orch_vars, objs, runs, cds, st,
                   calls, lib_log, solve_log>>

\* self._catalog_cache = catalog_result
CdsStoreCache(t) ==
    /\ pc[t] = "cds_store_cache"
    /\ UNCHANGED aux_vars
    /\ catalog_cache' = cds[t].catalog_result
    /\ pc' = [pc EXCEPT ![t] = "cds_store_path"]
    /\ UNCHANGED <<catalog_ctx_path, orch_vars, objs, runs, cds, st, calls,
                   lib_log, solve_log>>

\* self._catalog_ctx_path = ctx_path
CdsStorePath(t) ==
    /\ pc[t] = "cds_store_path"
    /\ UNCHANGED aux_vars
    /\ catalog_ctx_path' = cds[t].ctx_path
    /\ pc' = [pc EXCEPT ![t] = "cds_return"]
    /\ UNCHANGED <<catalog_cache, orch_vars, objs, runs, cds, st, calls,
                   lib_log, solve_log>>

\* What a completed direct call leaves in lib_log.
LibRecord(t) ==
    [ctx_path |-> cds[t].ctx_path, force_refresh |-> cds[t].force_refresh,
     outcome |-> cds[t].outcome, ret |-> cds[t].catalog_result,
     had |-> cds[t].had, cached0 |-> cds[t].cached0, cached_path0 |-> cds[t].path0,
     runs0 |-> cds[t].runs0,
     has |-> has_catalog(cds[t].ctx_path), cached |-> get_catalog,
     cached_path |-> catalog_ctx_path, runs |-> runs]


\* ---- LibrarianAgent.extract_domain_knowledge --------------------------------
\* extract_domain_knowledge from the test of its catalog to the test of its
\* own directory listing, on a catalog dict, a directory in condition dir and
\* the path p: an error result with its text, an exception of the listing, or
\* the way on to the model run.
ExtractCheck(catalog, dir, p) ==
    IF catalog.error
    THEN [outcome |-> "error", error |-> DoesNotExist(catalog.ctx_path), dir |-> "none"]
    ELSE LET listing == get_directory_listing(dir, p) IN
         IF listing.raised
         THEN [outcome |-> "raised", error |-> listing.status, dir |-> dir]
         ELSE IF ListingError(listing)
         THEN [outcome |-> "error", error |-> listing.status, dir |-> dir]
         ELSE [outcome |-> "run", error |-> <<>>, dir |-> dir]

NoEdk ==
    [ctx_path |-> None, catalog |-> None, resolved |-> None, cat |-> "none",
     had |-> FALSE, cached0 |-> None, runs0 |-> 0, dir |-> "none",
     outcome |-> "none", error |-> <<>>, ran |-> FALSE]

\* Mutant of ResolveFromCache: the cached path is not compared with ctx_path.
ResolveFromCacheAnyPath(p) == catalog_cache # None

\* self._catalog_cache is not None and self._catalog_ctx_path == ctx_path
ResolveFromCache(p) == catalog_cache # None /\ catalog_ctx_path = p

\* A caller invokes librarian.extract_domain_knowledge(query, p, catalog):
\* catalog is None or the dict get_catalog() gave the caller.
ExtractCall(t, p, catalog) ==
    /\ pc[t] = "idle"
    /\ calls < MaxExtracts
    /\ calls' = calls + 1
    /\ edk' = [edk EXCEPT ![t] = [NoEdk EXCEPT !.ctx_path = p, !.catalog = catalog,
                                               !.had = has_catalog(p),
                                               !.cached0 = get_catalog,
                                               !.runs0 = runs]]
    /\ pc' = [pc EXCEPT ![t] = "edk_resolve"]
    /\ UNCHANGED <<librarian_vars, orch_vars, objs, runs, cds, st, lib_log, solve_log,
                   edk_log, outside_agents>>

\* "Use provided catalog, or fall back to cache, or create new one"
EdkResolve(t) ==
    /\ pc[t] = "edk_resolve"
    /\ IF edk[t].catalog # None
       THEN /\ edk' = [edk EXCEPT ![t].resolved = edk[t].catalog, ![t].cat = "given"]
            /\ pc' = [pc EXCEPT ![t] = "edk_check"]
            /\ cds' = cds
       ELSE IF ResolveFromCache(edk[t].ctx_path)
       THEN /\ edk' = [edk EXCEPT ![t].resolved = catalog_cache, ![t].cat = "cached"]
            /\ pc' = [pc EXCEPT ![t] = "edk_check"]
            /\ cds' = cds
       ELSE /\ cds' = [cds EXCEPT ![t] = [NoCds EXCEPT !.ctx_path = edk[t].ctx_path,
                                                       !.ret_to = "extract",
                                                       !.had = has_catalog(edk[t].ctx_path),
                                                       !.cached0 = get_catalog,
                                                       !.path0 = catalog_ctx_path,
                                                       !.runs0 = runs]]
            /\ pc' = [pc EXCEPT ![t] = "cds_check"]
            /\ edk' = edk
    /\ UNCHANGED <<librarian_vars, orch_vars, objs, runs, st, calls, lib_log, solve_log,
                   edk_log, outside_agents>>

\* catalog = self.catalog_data_sources(ctx_path): the call has returned a
\* dict, or its exception leaves extract_domain_knowledge.
EdkCatalog(t) ==
    /\ pc[t] = "edk_catalog"
    /\ cds' = [cds EXCEPT ![t] = NoCds]
    /\ IF cds[t].outcome = "raised"
       THEN /\ edk' = [edk EXCEPT ![t].cat = "raised", ![t].outcome = "raised"]
            /\ pc' = [pc EXCEPT ![t] = "edk_return"]
       ELSE /\ edk' = [edk EXCEPT ![t].resolved = cds[t].catalog_result,
                                  ![t].cat = cds[t].outcome]
            /\ pc' = [pc EXCEPT ![t] = "edk_check"]
    /\ UNCHANGED <<librarian_vars, orch_vars, objs, runs, st, calls, lib_log, solve_log,
                   edk_log, outside_agents>>

\* The test of the catalog, get_directory_listing(ctx_path) and its test.
EdkCheck(t) ==
    /\ pc[t] = "edk_check"
    /\ \E dir \in DirStates :
         LET c == ExtractCheck(objs[edk[t].resolved], dir, edk[t].ctx_path) IN
         /\ edk' = [edk EXCEPT ![t].dir = c.dir, ![t].error = c.error,
                               ![t].outcome = IF c.outcome = "run" THEN "none"
                                              ELSE c.outcome]
         /\ pc' = [pc EXCEPT ![t] = IF c.outcome = "run" THEN "edk_run" ELSE "edk_return"]
    /\ UNCHANGED <<librarian_vars, orch_vars, objs, runs, cds, st, calls, lib_log,
                   solve_log, edk_log, outside_agents>>

\* response = self.run(prompt): a response, or an exception of the run.
EdkRun(t) ==
    /\ pc[t] = "edk_run"
    /\ \E ok \in BOOLEAN :
         edk' = [edk EXCEPT ![t].ran = TRUE,
                            ![t].outcome = IF ok THEN "ok" ELSE "raised"]
    /\ pc' = [pc EXCEPT ![t] = "edk_return"]
    /\ UNCHANGED <<librarian_vars, orch_vars, objs, runs, cds, st, calls, lib_log,
                   solve_log, edk_log, outside_agents>>

\* What a completed direct call leaves in edk_log: the frame (outcome "error"
\* is the returned dict with knowledge_response = {"error": error}, "ok" the
\* dict around the response, "raised" an exception) and the Librarian's state.
EdkRecord(t) ==
    [ctx_path |-> edk[t].ctx_path, catalog |-> edk[t].catalog,
     resolved |-> edk[t].resolved, cat |-> edk[t].cat, had |-> edk[t].had,
     runs0 |-> edk[t].runs0, cached0 |-> edk[t].cached0, dir |-> edk[t].dir,
     outcome |-> edk[t].outcome, error |-> edk[t].error, ran |-> edk[t].ran,
     has |-> has_catalog(edk[t].ctx_path), cached |-> get_catalog, runs |-> runs]

\* extract_domain_knowledge returns or raises.
EdkReturn(t) ==
    /\ pc[t] = "edk_return"
    /\ edk_log' = Append(edk_log, EdkRecord(t))
    /\ edk' = [edk EXCEPT ![t] = NoEdk]
    /\ pc' = [pc EXCEPT ![t] = "idle"]
    /\ UNCHANGED <<librarian_vars, orch_vars, objs, runs, cds, st, calls, lib_log,
                   solve_log, outside_agents>>


\* ---- MultiAgentOrchestrator.solve_task --------------------------------------
\* What a completed solve_task call leaves in solve_log: the returned dict
\* (status, iterations, final_trajectory) and what the call did on the way.
SolveRecord(f, returned) ==
    [max_iterations |-> f.max_iterations, returned |-> returned,
     status |-> f.status, iterations |-> f.iteration,
     steps |-> f.steps, current_step |-> f.current_step,
     executed |-> f.executed, evals |-> f.evals, cat |-> f.cat,
     data_catalog |-> f.librarian_findings, extract_catalog |-> f.extract_catalog,
     trace |-> f.trace, runs |-> runs]

\* An exception leaves solve_task: nothing is returned, the frame is dropped.
SolveRaise(t, f) ==
    /\ solve_log' = Append(solve_log, SolveRecord(f, FALSE))
    /\ st' = [st EXCEPT ![t] = NoSt]
    /\ pc' = [pc EXCEPT ![t] = "idle"]

\* catalog_data_sources returns (or raises) to its caller.  Called from
\* solve_task, the result becomes librarian_findings and shared_state["catalog"];
\* called from extract_domain_knowledge, the result stays in the frame until
\* the caller takes it.
CdsReturn(t) ==
    /\ pc[t] = "cds_return"
    /\ UNCHANGED aux_vars
    /\ cds' = IF cds[t].ret_to = "extract" THEN cds ELSE [cds EXCEPT ![t] = NoCds]
    /\ IF cds[t].ret_to = "direct"
       THEN /\ lib_log' = Append(lib_log, LibRecord(t))
            /\ pc' = [pc EXCEPT ![t] = "idle"]
            /\ UNCHANGED <<shared_catalog, st, solve_log>>
       ELSE IF cds[t].ret_to = "extract"
       THEN /\ pc' = [pc EXCEPT ![t] = "edk_catalog"]
            /\ UNCHANGED <<shared_catalog, st, lib_log, solve_log>>
       ELSE IF cds[t].outcome = "raised"
       THEN /\ SolveRaise(t, [st[t] EXCEPT !.cat = "raised"])
            /\ UNCHANGED <<shared_catalog, lib_log>>
       ELSE /\ shared_catalog' = cds[t].catalog_result
            /\ st' = [st EXCEPT ![t].librarian_findings = cds[t].catalog_result,
                                ![t].cat = cds[t].outcome]
            /\ pc' = [pc EXCEPT ![t] = "st_extract"]
            /\ UNCHANGED <<lib_log, solve_log>>
    /\ UNCHANGED <<librarian_vars, domain_knowledge, objs, runs, calls>>

\* A caller invokes orchestrator.solve_task(task, max_iterations).
SolveBegin(t, task, mi) ==
    /\ pc[t] = "idle"
    /\ UNCHANGED aux_vars
    /\ calls < MaxSolves
    /\ calls' = calls + 1
    /\ st' = [st EXCEPT ![t] = [NoSt EXCEPT !.task = task, !.max_iterations = mi]]
    /\ pc' = [pc EXCEPT ![t] = "st_catalog"]
    /\ UNCHANGED <<librarian_vars, orch_vars, objs, runs, cds, lib_log, solve_log>>

\* Mutant of NeedsCatalog: the test of the shared state is dropped, every call
\* resolves the catalog through the Librarian.
NeedsCatalogAlways == TRUE

\* if self.shared_state["catalog"] is None
NeedsCatalog == shared_catalog = None

\* "Create catalog once and store in shared state": build through the
\* Librarian when shared_state["catalog"] is None, else take the stored one.
StCatalog(t) ==
    /\ pc[t] = "st_catalog"
    /\ UNCHANGED aux_vars
    /\ IF NeedsCatalog
       THEN /\ cds' = [cds EXCEPT ![t] = [NoCds EXCEPT !.ctx_path = OrchCtxPath,
                                                       !.ret_to = "solve",
                                                       !.had = has_catalog(OrchCtxPath),
                                                       !.cached0 = get_catalog,
                                                       !.path0 = catalog_ctx_path,
                                                       !.runs0 = runs]]
            /\ pc' = [pc EXCEPT ![t] = "cds_check"]
            /\ st' = [st EXCEPT ![t] = Traced(@, "catalog")]
       ELSE /\ st' = [st EXCEPT ![t] = Traced([@ EXCEPT !.librarian_findings = shared_catalog,
                                                        !.cat = "reused"], "catalog")]
            /\ pc' = [pc EXCEPT ![t] = "st_extract"]
            /\ cds' = cds
    /\ UNCHANGED <<librarian_vars, orch_vars, objs, runs, calls, lib_log, solve_log>>

\* extract_domain_knowledge(task, ctx_path, catalog=shared_state["catalog"]) up
\* to its model run: an error catalog or a listing error gives an error result,
\* an exception of the listing leaves solve_task.
StExtract(t) ==
    /\ pc[t] = "st_extract"
    /\ UNCHANGED aux_vars
    /\ \E dir \in DirStates :
         LET c == ExtractCheck(objs[shared_catalog], dir, OrchCtxPath)
             f == Traced([st[t] EXCEPT !.extract_catalog = shared_catalog], "extract")
         IN  IF c.outcome = "error"
             THEN /\ st' = [st EXCEPT ![t] = [f EXCEPT !.knowledge = "error"]]
                  /\ pc' = [pc EXCEPT ![t] = "st_store_knowledge"]
                  /\ solve_log' = solve_log
             ELSE IF c.outcome = "raised"
             THEN SolveRaise(t, f)
             ELSE /\ st' = [st EXCEPT ![t] = f]
                  /\ pc' = [pc EXCEPT ![t] = "st_extract_run"]
                  /\ solve_log' = solve_log
    /\ UNCHANGED <<librarian_vars, orch_vars, objs, runs, cds, calls, lib_log>>

\* extract_domain_knowledge, response = self.run(prompt)
StExtractRun(t) ==
    /\ pc[t] = "st_extract_run"
    /\ UNCHANGED aux_vars
    /\ \E ok \in BOOLEAN :
         IF ok
         THEN /\ st' = [st EXCEPT ![t].knowledge = "ok"]
              /\ pc' = [pc EXCEPT ![t] = "st_store_knowledge"]
              /\ solve_log' = solve_log
         ELSE SolveRaise(t, st[t])
    /\ UNCHANGED <<librarian_vars, orch_vars, objs, runs, cds, calls, lib_log>>

\* get_domain_knowledge(task): the entry stored for the task, "none" for the
\* None that dict.get gives for a missing key.
get_domain_knowledge(task) == domain_knowledge[task]

\* Mutant of StStoreKnowledge: the map is replaced by one holding only the
\* new entry.
StStoreKnowledgeReplacing(t) ==
    /\ pc[t] = "st_store_knowledge"
    /\ UNCHANGED aux_vars
    /\ domain_knowledge' = [k \in Tasks |-> IF k = st[t].task THEN st[t].knowledge
                                            ELSE "none"]
    /\ pc' = [pc EXCEPT ![t] = "st_plan"]
    /\ UNCHANGED <<librarian_vars, shared_catalog, objs, runs, cds, st, calls,
                   lib_log, solve_log>>

\* self.shared_state["domain_knowledge"][task] = domain_knowledge
StStoreKnowledge(t) ==
    /\ pc[t] = "st_store_knowledge"
    /\ UNCHANGED aux_vars
    /\ domain_knowledge' = [domain_knowledge EXCEPT ![st[t].task] = st[t].knowledge]
    /\ pc' = [pc EXCEPT ![t] = "st_plan"]
    /\ UNCHANGED <<librarian_vars, shared_catalog, objs, runs, cds, st, calls,
                   lib_log, solve_log>>

\* ---- TaskTrajectory and the iterative execution loop ----------------------
\* The trajectory create_trajectory returns: the dataclass defaults
\* current_step = 0 and status = "pending", and the initial plan as steps.
create_trajectory(f) ==
    [f EXCEPT !.steps = [i \in 1..InitialPlanSteps |-> i],
              !.current_step = 0,
              !.status = "pending"]

\* Mutant of LoopContinues: the bound compared with <= (one iteration too many).
LoopContinuesInclusive(f) ==
    f.iteration <= f.max_iterations /\ f.status \notin {"completed", "failed"}

\* The while condition of the loop.
LoopContinues(f) ==
    f.iteration < f.max_iterations /\ f.status \notin {"completed", "failed"}

\* Mutant of StepsExhausted: the completion test with > (one step too late).
StepsExhaustedStrict(f) == f.current_step > Len(f.steps)

\* "Check if we should continue": the test that completes the trajectory.
StepsExhausted(f) == f.current_step >= Len(f.steps)

\* Mutant of StCreateTrajectory: the trajectory is also put into
\* shared_state["trajectories"].
StCreateTrajectoryShared(t) ==
    /\ pc[t] = "st_plan"
    /\ \E ok \in BOOLEAN :
         IF ok
         THEN /\ st' = [st EXCEPT ![t] = create_trajectory(Traced(st[t], "plan"))]
              /\ pc' = [pc EXCEPT ![t] = "st_loop"]
              /\ solve_log' = solve_log
         ELSE SolveRaise(t, Traced(st[t], "plan"))
    /\ trajectories' = Append(trajectories, st[t].task)
    /\ UNCHANGED <<librarian_vars, orch_vars, objs, runs, cds, calls, lib_log>>
    /\ UNCHANGED <<runner_vars, retry_vars, sandbox_vars, extract_vars, startup_vars,
                   scorer_vars, execution_results, message_history, tracing_vars>>

\* trajectory = self.strategist.create_trajectory(task, combined_findings)
StCreateTrajectory(t) ==
    /\ pc[t] = "st_plan"
    /\ UNCHANGED aux_vars
    /\ \E ok \in BOOLEAN :
         IF ok
         THEN /\ st' = [st EXCEPT ![t] = create_trajectory(Traced(st[t], "plan"))]
              /\ pc' = [pc EXCEPT ![t] = "st_loop"]
              /\ solve_log' = solve_log
         ELSE SolveRaise(t, Traced(st[t], "plan"))
    /\ UNCHANGED <<librarian_vars, orch_vars, objs, runs, cds, calls, lib_log>>

\* while iteration < max_iterations and status not in [...]: iteration += 1
StLoop(t) ==
    /\ pc[t] = "st_loop"
    /\ UNCHANGED aux_vars
    /\ IF LoopContinues(st[t])
       THEN /\ st' = [st EXCEPT ![t].iteration = @ + 1]
            /\ pc' = [pc EXCEPT ![t] = "st_execute"]
       ELSE /\ st' = st
            /\ pc' = [pc EXCEPT ![t] = "st_return"]
    /\ UNCHANGED <<librarian_vars, orch_vars, objs, runs, cds, calls, lib_log, solve_log>>

\* executor.execute_step(current_step, context) returning out: executed keeps
\* the index handed to the executor (-1 for the empty step {}).
execute_step(f, out) ==
    Traced([f EXCEPT !.executed = Append(@, IF f.steps # <<>> THEN f.current_step ELSE -1),
                     !.executor_result = out], "execute")

\* current_step = trajectory.steps[trajectory.current_step] if trajectory.steps
\* else {} (an IndexError when current_step is past the steps), then
\* executor_result = self.executor.execute_step(current_step, context).
StExecute(t) ==
    /\ pc[t] = "st_execute"
    /\ UNCHANGED aux_vars
    /\ \E out \in ExecutorResults \cup {"raise"} :
         LET f == st[t]
             IndexError == f.steps # <<>> /\ f.current_step >= Len(f.steps)
         IN  IF IndexError
             THEN SolveRaise(t, f)
             ELSE IF out # "raise"
             THEN /\ st' = [st EXCEPT ![t] = execute_step(f, out)]
                  /\ pc' = [pc EXCEPT ![t] = "st_evaluate"]
                  /\ solve_log' = solve_log
             ELSE SolveRaise(t, Traced(f, "execute"))
    /\ UNCHANGED <<librarian_vars, orch_vars, objs, runs, cds, calls, lib_log>>

\* Mutant of evaluate_and_decide: a decision parser that acts on the text, a
\* "fail" decision terminating the trajectory as failed.
evaluate_and_decide_parsed(f, decision) ==
    Traced([f EXCEPT !.evals = @ + 1, !.decision = decision,
                     !.status = IF decision = "fail" THEN "failed" ELSE @], "evaluate")

\* StrategistAgent.evaluate_and_decide: the response text is returned as
\* {"decision": response, "trajectory_updated": True}; the trajectory is only
\* read for the prompt.
evaluate_and_decide(f, decision) ==
    Traced([f EXCEPT !.evals = @ + 1, !.decision = decision], "evaluate")

\* Mutant of StEvaluate: the strategist is not asked to evaluate the result.
StEvaluateSkipped(t) ==
    /\ pc[t] = "st_evaluate"
    /\ UNCHANGED aux_vars
    /\ pc' = [pc EXCEPT ![t] = "st_advance"]
    /\ UNCHANGED <<librarian_vars, orch_vars, objs, runs, cds, st, calls, lib_log,
                   solve_log>>

\* decision = self.strategist.evaluate_and_decide(trajectory, executor_result);
\* the decision is not looked at again.
StEvaluate(t) ==
    /\ pc[t] = "st_evaluate"
    /\ UNCHANGED aux_vars
    /\ \E out \in Decisions \cup {"raise"} :
         IF out # "raise"
         THEN /\ st' = [st EXCEPT ![t] = evaluate_and_decide(st[t], out)]
              /\ pc' = [pc EXCEPT ![t] = "st_advance"]
              /\ solve_log' = solve_log
         ELSE SolveRaise(t, Traced(st[t], "evaluate"))
    /\ UNCHANGED <<librarian_vars, orch_vars, objs, runs, cds, calls, lib_log>>

\* Mutant of AdvanceStep: the increment is missing.
AdvanceStepStuck(f) == f

\* trajectory.current_step += 1
AdvanceStep(f) == Traced([f EXCEPT !.current_step = @ + 1], "advance")

\* trajectory.current_step += 1; completed (and break) once the steps are used up.
StAdvance(t) ==
    /\ pc[t] = "st_advance"
    /\ UNCHANGED aux_vars
    /\ LET f == AdvanceStep(st[t])
       IN  IF StepsExhausted(f)
           THEN /\ st' = [st EXCEPT ![t] = [f EXCEPT !.status = "completed"]]
                /\ pc' = [pc EXCEPT ![t] = "st_return"]
           ELSE /\ st' = [st EXCEPT ![t] = f]
                /\ pc' = [pc EXCEPT ![t] = "st_loop"]
    /\ UNCHANGED <<librarian_vars, orch_vars, objs, runs, cds, calls, lib_log, solve_log>>

\* return {"task": ..., "status": ..., "iterations": ..., "final_trajectory": ...}
StReturn(t) ==
    /\ pc[t] = "st_return"
    /\ UNCHANGED aux_vars
    /\ solve_log' = Append(solve_log, SolveRecord(st[t], TRUE))
    /\ st' = [st EXCEPT ![t] = NoSt]
    /\ pc' = [pc EXCEPT ![t] = "idle"]
    /\ UNCHANGED <<librarian_vars, orch_vars, objs, runs, cds, calls, lib_log>>

\* ---- utils/dabstep_utils.py: the answers file and append_answer -------------
\* A Python value that is an int, or the str of that int; the two never
\* compare equal.
IntVal(n) == <<"int", n>>
StrVal(n) == <<"str", n>>

\* answers_file = base_filename / "answers.jsonl": the file run_single_task
\* appends to.
AnswersFile == "base_filename/answers.jsonl"

\* f = base_filename.parent / f"{base_filename.stem}_answers.jsonl": the file
\* get_tasks_to_run reads.
ResumeFile == "base_filename_answers.jsonl"

FileNames == {AnswersFile, ResumeFile}

\* The dataset: data[i]["task_id"] for i in range(len(data)).
Data == [i \in 1..NumTasks |-> i]

\* answer_dict = {"task_id": str(task["task_id"]), "agent_answer": ...}
answer_dict(task_id) == [task_id |-> StrVal(task_id)]

NoAp == [jsonl_file |-> "none", entry |-> answer_dict(None), id |-> 0,
         size |-> 0, flushed |-> 0, ret_to |-> "none"]

\* The part-th piece, of size, of the line json.dumps(entry) + "\n" of call id.
Chunk(f, part) == [entry |-> f.entry, id |-> f.id, part |-> part, size |-> f.size]

\* A piece that ends its line.
IsLineEnd(c) == c.part = c.size

\* The entries json.loads gives for the lines of a file, in order.
Lines(content) ==
    LET ends == SelectSeq(content, IsLineEnd)
    IN  [n \in 1..Len(ends) |-> ends[n].entry]

\* A worker's run_single_task invokes append_answer(entry, answers_file) for
\* the task it has run (the k-th call for task k); the line is size buffers
\* long.
AppendCall(t, size) ==
    /\ apc[t] = "idle"
    /\ ap_calls < MaxAppends
    /\ ap_calls' = ap_calls + 1
    /\ ap' = [ap EXCEPT ![t] = [NoAp EXCEPT !.jsonl_file = AnswersFile,
                                            !.entry = answer_dict(ap_calls + 1),
                                            !.id = ap_calls + 1, !.size = size,
                                            !.ret_to = "direct"]]
    /\ apc' = [apc EXCEPT ![t] = "ap_lock"]
    /\ UNCHANGED <<outside_runner, file_exists, file_content,
                   append_answer_lock, ap_log, job, run_log>>

\* Mutant of LockFree: the lock is not looked at.
LockFreeAlways == TRUE

\* append_answer_lock can be acquired.
LockFree == append_answer_lock = None

\* with append_answer_lock: the lock is acquired.
ApAcquire(t) ==
    /\ apc[t] = "ap_lock"
    /\ LockFree
    /\ append_answer_lock' = t
    /\ apc' = [apc EXCEPT ![t] = "ap_open"]
    /\ UNCHANGED <<outside_runner, file_exists, file_content, ap, ap_calls,
                   ap_log, job, run_log>>

\* open(jsonl_file, "a", encoding="utf-8"): the file is created when missing.
ApOpen(t) ==
    /\ apc[t] = "ap_open"
    /\ file_exists' = file_exists \cup {ap[t].jsonl_file}
    /\ apc' = [apc EXCEPT ![t] = "ap_write"]
    /\ UNCHANGED <<outside_runner, file_content, append_answer_lock, ap,
                   ap_calls, ap_log, job, run_log>>

\* fp.write(json.dumps(entry) + "\n"): a full buffer is flushed to the file.
ApFlush(t) ==
    /\ apc[t] = "ap_write"
    /\ ap[t].flushed < ap[t].size - 1
    /\ file_content' = [file_content EXCEPT ![ap[t].jsonl_file] =
                           Append(@, Chunk(ap[t], ap[t].flushed + 1))]
    /\ ap' = [ap EXCEPT ![t].flushed = @ + 1]
    /\ UNCHANGED <<outside_runner, file_exists, append_answer_lock, apc,
                   ap_calls, ap_log, job, run_log>>

\* Leaving the with block, the file first: the rest of the line is flushed and
\* the file closed.
ApClose(t) ==
    /\ apc[t] = "ap_write"
    /\ ap[t].flushed = ap[t].size - 1
    /\ file_content' = [file_content EXCEPT ![ap[t].jsonl_file] =
                           Append(@, Chunk(ap[t], ap[t].size))]
    /\ ap' = [ap EXCEPT ![t].flushed = @ + 1]
    /\ apc' = [apc EXCEPT ![t] = "ap_unlock"]
    /\ UNCHANGED <<outside_runner, file_exists, append_answer_lock,
                   ap_calls, ap_log, job, run_log>>

\* ... then the lock is released and append_answer returns, to its direct
\* caller or to run_single_task, whose return takes main to its next task.
ApRelease(t) ==
    /\ apc[t] = "ap_unlock"
    /\ append_answer_lock' = None
    /\ ap' = [ap EXCEPT ![t] = NoAp]
    /\ apc' = [apc EXCEPT ![t] = "idle"]
    /\ IF ap[t].ret_to = "direct"
       THEN /\ ap_log' = Append(ap_log, ap[t])
            /\ job' = job
       ELSE /\ job' = [job EXCEPT !.pc = "loop", !.i = @ + 1]
            /\ ap_log' = ap_log
    /\ UNCHANGED <<outside_runner, file_exists, file_content, ap_calls,
                   run_log>>

\* ---- run.py: main and run_single_task ---------------------------------------
\* tasks_ids is None (--tasks-ids not given); otherwise it is a set of ids.
NoTasksIds == {None}

NoJob == [pc |-> "idle", total |-> 0, tasks_ids |-> NoTasksIds,
          tasks_to_run |-> <<>>, i |-> 0, logged0 |-> {},
          invoked |-> <<>>, outcome |-> "none"]

\* The task_id values of the answers persisted in the answer log.
Logged == IF AnswersFile \in file_exists
          THEN {Lines(file_content[AnswersFile])[n].task_id :
                   n \in 1..Len(Lines(file_content[AnswersFile]))}
          ELSE {}

\* get_tasks_to_run, the set of finished task ids: read from f when it exists.
done ==
    IF ResumeFile \in file_exists
    THEN {Lines(file_content[ResumeFile])[n].task_id :
             n \in 1..Len(Lines(file_content[ResumeFile]))}
    ELSE {}

\* get_tasks_to_run, the test of data[i]: task_id = int(data[i]["task_id"]) is
\* not in done, and is in tasks_ids when those are given.
Selected(i, tasks_ids) ==
    /\ IntVal(Data[i]) \notin done
    /\ tasks_ids # NoTasksIds => Data[i] \in tasks_ids

\* get_tasks_to_run(data, total, base_filename, tasks_ids): the tasks among
\* the first total of data that pass the test, in order.
RECURSIVE get_tasks_to_run(_, _)
get_tasks_to_run(total, tasks_ids) ==
    IF total = 0 THEN <<>>
    ELSE LET tasks == get_tasks_to_run(total - 1, tasks_ids)
         IN  IF Selected(total, tasks_ids) THEN Append(tasks, Data[total]) ELSE tasks

\* main up to its task loop: max_tasks gives total, then
\* tasks_to_run = get_tasks_to_run(data, total, base_filename, args.tasks_ids).
MainBegin(total, tasks_ids) ==
    /\ job.pc = "idle"
    /\ Len(run_log) < MaxRuns
    /\ job' = [NoJob EXCEPT !.pc = "loop",
                            !.total = total, !.tasks_ids = tasks_ids,
                            !.tasks_to_run = get_tasks_to_run(total, tasks_ids),
                            !.i = 1, !.logged0 = Logged]
    /\ UNCHANGED <<outside_runner, append_vars, run_log>>

\* for task in tasks_to_run: the next task, or the end of main.
MainLoop ==
    /\ job.pc = "loop"
    /\ IF job.i <= Len(job.tasks_to_run)
       THEN /\ job' = [job EXCEPT !.pc = "task"]
            /\ run_log' = run_log
       ELSE /\ run_log' = Append(run_log, [job EXCEPT !.outcome = "finished"])
            /\ job' = NoJob
    /\ UNCHANGED <<outside_runner, append_vars>>

\* run_single_task(task, ...): answer = agent.run(prompt), then
\* append_answer(answer_dict, answers_file).  An exception of the agent leaves
\* run_single_task and, the loop of main having no handler, main.
RunSingleTask ==
    /\ job.pc = "task"
    /\ \E ok \in BOOLEAN, size \in 1..MaxChunks :
         LET task_id == job.tasks_to_run[job.i]
             j == [job EXCEPT !.invoked = Append(@, task_id)]
         IN  IF ok
             THEN /\ job' = [j EXCEPT !.pc = "appending"]
                  /\ ap_calls' = ap_calls + 1
                  /\ ap' = [ap EXCEPT ![MainThread] =
                               [NoAp EXCEPT !.jsonl_file = AnswersFile,
                                            !.entry = answer_dict(task_id),
                                            !.id = ap_calls + 1, !.size = size,
                                            !.ret_to = "run_single_task"]]
                  /\ apc' = [apc EXCEPT ![MainThread] = "ap_lock"]
                  /\ run_log' = run_log
             ELSE /\ run_log' = Append(run_log, [j EXCEPT !.outcome = "raised"])
                  /\ job' = NoJob
                  /\ UNCHANGED <<ap, apc, ap_calls>>
    /\ UNCHANGED <<outside_runner, file_exists, file_content,
                   append_answer_lock, ap_log>>

\* ---- agents/models.py: LiteLLMModelWithBackOff.__call__ --------------------
\* stop=stop_after_attempt(450)
StopAfterAttempt == 450

\* wait_exponential(min=1, max=120, exp_base=2, multiplier=1)
WaitMin == 1
WaitMax == 120
ExpBase == 2
Multiplier == 1

\* wait_random(0, 5); the jitter is taken in whole seconds.
JitterMin == 0
JitterMax == 5

\* retry=retry_if_exception_type((...)): the exception kinds that are retried.
TransientKinds == {"Timeout", "RateLimitError", "APIConnectionError", "InternalServerError"}

\* What one invocation of the model call can end in: a response, a transient
\* exception or another exception.
Outcomes == {"response"} \cup TransientKinds \cup {"AuthenticationError", "BadRequestError"}

NoRt == [pc |-> "idle", attempt_number |-> 0, invocations |-> 0, sleeps |-> 0,
         exc |-> "none", base |-> 0, jitter |-> 0, transient |-> 0]

\* Mutant of ShouldRetry: every exception is retried.
ShouldRetryAny(exc) == TRUE

\* retry_if_exception_type: the exception is one of the transient kinds.
ShouldRetry(exc) == exc \in TransientKinds

\* Mutant of ShouldStop: one attempt more is allowed.
ShouldStopLate(attempt_number) == attempt_number > StopAfterAttempt

\* stop_after_attempt: the attempt just made was the last one allowed.
ShouldStop(attempt_number) == attempt_number >= StopAfterAttempt

\* acc * b ** e, computed up to the first value above cap (Python's integers
\* do not overflow; every use takes the minimum with a value up to cap).
RECURSIVE Power(_, _, _, _)
Power(b, e, acc, cap) ==
    IF e = 0 \/ acc > cap THEN acc ELSE Power(b, e - 1, b * acc, cap)

Max(a, b) == IF a >= b THEN a ELSE b
Min(a, b) == IF a <= b THEN a ELSE b

\* Mutant of wait_exponential: the ceiling is twice max.
wait_exponential_late_ceiling(attempt_number) ==
    Max(Max(0, WaitMin),
        Min(Multiplier * Power(ExpBase, attempt_number - 1, 1, 2 * WaitMax), 2 * WaitMax))

\* wait_exponential: max(max(0, min), min(multiplier * exp_base ** (n - 1), max))
wait_exponential(attempt_number) ==
    Max(Max(0, WaitMin),
        Min(Multiplier * Power(ExpBase, attempt_number - 1, 1, WaitMax), WaitMax))

\* wait_random: a value between its two bounds.
wait_random == JitterMin..JitterMax

\* A caller invokes model(messages): the first attempt is due.
ModelCall ==
    /\ rt.pc = "idle"
    /\ rt' = [NoRt EXCEPT !.pc = "attempt", !.attempt_number = 1]
    /\ UNCHANGED outside_retry

\* One attempt: super().__call__ is invoked.  A response is returned; an
\* exception that is not retried propagates; after the last allowed attempt
\* the retry gives up (RetryError); otherwise the wait is computed.
ModelAttempt ==
    /\ rt.pc = "attempt"
    /\ \E out \in Outcomes :
         LET r == [rt EXCEPT !.invocations = @ + 1]
         IN  IF out = "response"
             THEN rt' = [r EXCEPT !.pc = "returned"]
             ELSE IF ~ShouldRetry(out)
             THEN rt' = [r EXCEPT !.pc = "raised", !.exc = out]
             ELSE IF ShouldStop(rt.attempt_number)
             THEN rt' = [r EXCEPT !.pc = "raised", !.exc = "RetryError",
                                  !.transient = @ + 1]
             ELSE \E jitter \in wait_random :
                     rt' = [r EXCEPT !.pc = "sleep", !.exc = out,
                                     !.transient = @ + 1,
                                     !.base = wait_exponential(rt.attempt_number),
                                     !.jitter = jitter]
    /\ UNCHANGED outside_retry

\* before_sleep, the sleep of base + jitter seconds, and the next attempt is due.
ModelSleep ==
    /\ rt.pc = "sleep"
    /\ rt' = [rt EXCEPT !.pc = "attempt", !.sleeps = @ + 1, !.attempt_number = @ + 1,
                         !.exc = "none", !.base = 0, !.jitter = 0]
    /\ UNCHANGED outside_retry

\* ---- agents/code_agents.py: read_only_open and the executor's primitives ----
\* The characters a mode string is made of; a mode is the set of its characters.
ModeChars == {"r", "w", "a", "x", "+", "b"}
Modes == SUBSET ModeChars

\* No mode at that place of the call (no args[1], no mode keyword).
NoMode == {"absent"}

\* No read_only_open call is being made.
NoRo == [pos |-> NoMode, kw |-> NoMode, raised |-> "none", opened |-> NoMode,
         wrote |-> FALSE]

\* Mutant of NotReadMode: only 'w' is looked for.
NotReadModeOnlyW(mode) == "w" \in mode

\* 'r' not in mode or any(char in mode for char in 'wax+')
NotReadMode(mode) == "r" \notin mode \/ mode \cap {"w", "a", "x", "+"} # {}

\* The builtin open(file, mode): a mode that is not a read mode creates or
\* modifies the file.
builtin_open(r, mode) == [r EXCEPT !.opened = mode, !.wrote = NotReadMode(mode)]

\* read_only_open(*args, **kwargs) with args[1] = pos and mode= kw: the test
\* of the positional mode, the test of the keyword mode (default 'r'), then the
\* builtin open with the mode set to 'r' (or 'rb').  A mode given both ways is
\* a TypeError of the builtin.
read_only_open(pos, kw) ==
    LET r == [NoRo EXCEPT !.pos = pos, !.kw = kw]
        mode == IF kw # NoMode THEN kw ELSE {"r"}
    IN  IF pos # NoMode /\ NotReadMode(pos)
        THEN [r EXCEPT !.raised = "PermissionError"]
        ELSE IF NotReadMode(mode)
        THEN [r EXCEPT !.raised = "PermissionError"]
        ELSE IF pos # NoMode
        THEN IF kw # NoMode
             THEN [r EXCEPT !.raised = "TypeError"]
             ELSE builtin_open(r, IF "b" \notin pos THEN {"r"} ELSE {"r", "b"})
        ELSE builtin_open(r, {"r"})

\* The names _setup_read_only_executor registers.
ToolNames == {"open", "exec", "eval", "compile"}

\* An executor as the framework makes it: static_tools is None until the
\* framework fills it (ready), and then holds none of the four names.
NewExecutor(ready) ==
    [has_static_tools |-> ready,
     static_tools |-> [n \in ToolNames |-> "absent"],
     globals_open |-> "absent"]

\* BaseCodeAgent._setup_read_only_executor: static_tools.update(restricted_tools)
\* when python_executor.static_tools is not None, nothing otherwise.
setup_read_only_executor(e) ==
    IF e.has_static_tools
    THEN [e EXCEPT !.static_tools = [n \in ToolNames |->
                                       IF n = "open" THEN "read_only_open" ELSE "blocked"]]
    ELSE e

\* The executor has read_only_open for the name open.
HasReadOnlyOpen(e) ==
    \/ (e.has_static_tools /\ e.static_tools["open"] = "read_only_open")
    \/ e.globals_open = "read_only_open"

NoBox == [pc |-> "none", executor |-> NewExecutor(FALSE)]

\* BaseCodeAgent.__init__: the framework's constructor makes the executor,
\* then self._setup_read_only_executor().
AgentInit ==
    /\ box.pc = "none"
    /\ \E ready \in BOOLEAN :
         box' = [NoBox EXCEPT !.pc = "constructed",
                              !.executor = setup_read_only_executor(NewExecutor(ready))]
    /\ UNCHANGED <<outside_sandbox, ro>>

\* BaseCodeAgent._setup_executor: the framework makes the executor anew, then
\* globals['open'] = self._read_only_open and self._setup_read_only_executor().
SetupExecutor ==
    /\ box.pc = "constructed"
    /\ \E ready \in BOOLEAN :
         box' = [box EXCEPT !.executor = setup_read_only_executor(
                                [NewExecutor(ready) EXCEPT !.globals_open = "read_only_open"])]
    /\ UNCHANGED <<outside_sandbox, ro>>

\* answer = agent.run(prompt): a task run starts with the executor as it is.
AgentRun ==
    /\ box.pc = "constructed"
    /\ box' = [box EXCEPT !.pc = "running"]
    /\ UNCHANGED <<outside_sandbox, ro>>

\* The code of a step calls open(file, ...) and the executor has
\* read_only_open for it.
ExecutorOpen(pos, kw) ==
    /\ box.pc = "running"
    /\ HasReadOnlyOpen(box.executor)
    /\ ro = NoRo
    /\ ro' = read_only_open(pos, kw)
    /\ UNCHANGED <<outside_sandbox, box>>

\* The code of the step goes on after the call, with the file object or the
\* exception it got.
ExecutorOpenDone ==
    /\ ro # NoRo
    /\ ro' = NoRo
    /\ UNCHANGED <<outside_sandbox, box>>

\* agent.run returns.
AgentRunEnd ==
    /\ box.pc = "running"
    /\ ro = NoRo
    /\ box' = [box EXCEPT !.pc = "constructed"]
    /\ UNCHANGED <<outside_sandbox, ro>>

\* ---- utils/execution.py get_env, run.py parse_args and main -------------------
\* The settings get_env reads; an environment is the set of those that are set
\* to a non-empty value.
Settings == {"BASE_URL", "API_KEY", "MODEL", "LLM_GATEWAY", "SSL_CERT_FILE", "HF_TOKEN"}

required_vars == {"BASE_URL", "API_KEY", "MODEL", "SSL_CERT_FILE", "HF_TOKEN"}

\* get_env(): ValueError when a required setting is missing, else the config.
get_env(env) ==
    LET missing_vars == required_vars \ env
    IN  IF missing_vars # {}
        THEN [raised |-> "ValueError", config |-> {}]
        ELSE [raised |-> "none", config |-> env]

\* parse_args(): try get_env(), except ValueError: a warning is logged and
\* env_config = {}; the arguments then default to what env_config has.
parse_args(env) ==
    LET r == get_env(env)
    IN  IF r.raised = "ValueError"
        THEN [env_config |-> {}, warned |-> TRUE]
        ELSE [env_config |-> r.config, warned |-> FALSE]

NoBoot == [pc |-> "idle", env |-> {}, env_config |-> {}, warned |-> FALSE,
           downloaded |-> FALSE, tasks |-> 0]

\* main starts in an environment: args = parse_args()
MainParseArgs(env) ==
    /\ boot.pc = "idle"
    /\ LET a == parse_args(env)
       IN  boot' = [NoBoot EXCEPT !.pc = "parsed",
                                  !.env = env, !.env_config = a.env_config,
                                  !.warned = a.warned]
    /\ UNCHANGED <<outside_startup, ls>>

\* ctx_path = download_context(str(Path().resolve()), args.hf_token): the
\* corpus is downloaded, or the download raises and main ends.
MainDownload ==
    /\ boot.pc = "parsed"
    /\ \E ok \in BOOLEAN :
         boot' = IF ok THEN [boot EXCEPT !.pc = "tasks", !.downloaded = TRUE]
                 ELSE [boot EXCEPT !.pc = "failed"]
    /\ UNCHANGED <<outside_startup, ls>>

\* for task in tasks_to_run: run_single_task(task, ...)
MainTask ==
    /\ boot.pc = "tasks"
    /\ boot.tasks < NumTasks
    /\ boot' = [boot EXCEPT !.tasks = @ + 1]
    /\ UNCHANGED <<outside_startup, ls>>

\* main ends, after its loop or with an exception.
MainEnd ==
    /\ boot.pc \in {"tasks", "failed"}
    /\ boot' = NoBoot
    /\ UNCHANGED <<outside_startup, ls>>

\* ---- utils/dabstep_utils.py: question_scorer and its helpers ------------------
\* A str is the sequence of its characters, over this alphabet.
Chars ==
    {" ", "$", ",", ".", "0", "1", "2", "3", "4", "5", ";", "A", "T", "[", "]",
     "a", "b", "e", "l", "s", "t"}

\* \d
Digit == {"0", "1", "2", "3", "4", "5"}

\* \w
WordChars == Digit \cup {"A", "T", "a", "b", "e", "l", "s", "t"}

\* The code point of a character: the order list.sort() compares str by.
ord(c) ==
    CASE c = " " -> 32 [] c = "$" -> 36 [] c = "," -> 44 [] c = "." -> 46
      [] c = "0" -> 48 [] c = "1" -> 49 [] c = "2" -> 50 [] c = "3" -> 51
      [] c = "4" -> 52 [] c = "5" -> 53 [] c = ";" -> 59 [] c = "A" -> 65
      [] c = "T" -> 84 [] c = "[" -> 91 [] c = "]" -> 93 [] c = "a" -> 97
      [] c = "b" -> 98 [] c = "e" -> 101 [] c = "l" -> 108 [] c = "s" -> 115
      [] c = "t" -> 116

\* int(c) of a digit
DigitVal(c) == ord(c) - 48

\* Mutant of lower: the str as it is.
lower_unchanged(s) == s

\* str.lower()
lower(s) ==
    [i \in 1..Len(s) |-> IF s[i] = "A" THEN "a" ELSE IF s[i] = "T" THEN "t" ELSE s[i]]

RECURSIVE lstrip(_)
lstrip(s) == IF s # <<>> /\ Head(s) = " " THEN lstrip(Tail(s)) ELSE s

RECURSIVE rstrip(_)
rstrip(s) == IF s # <<>> /\ s[Len(s)] = " " THEN rstrip(SubSeq(s, 1, Len(s) - 1)) ELSE s

\* str.strip()
strip(s) == rstrip(lstrip(s))

\* s.replace(c, '') for each c of a set of characters
Without(s, cs) == SelectSeq(s, LAMBDA c : c \notin cs)

\* The length of the run of digits of s that starts at index i.
RECURSIVE DigitRun(_, _)
DigitRun(s, i) == IF i <= Len(s) /\ s[i] \in Digit THEN 1 + DigitRun(s, i + 1) ELSE 0

\* (,\d{3})* from index i: the index after the last group matched.
RECURSIVE Groups(_, _)
Groups(s, i) ==
    IF i <= Len(s) /\ s[i] = "," /\ DigitRun(s, i + 1) >= 3
    THEN Groups(s, i + 4)
    ELSE i

\* (\.\d+)? from index i: the index after it.
Fraction(s, i) ==
    IF i <= Len(s) /\ s[i] = "." /\ DigitRun(s, i + 1) >= 1
    THEN i + 1 + DigitRun(s, i + 1)
    ELSE i

\* re.match(r'^\$?(\d{1,3}(,\d{3})*(\.\d+)?|\.\d+)$', value.strip())
is_numeric_with_commas(value) ==
    LET v == strip(value)
        s == IF v # <<>> /\ Head(v) = "$" THEN Tail(v) ELSE v
        n == DigitRun(s, 1)
    IN  \/ n \in 1..3 /\ Fraction(s, Groups(s, n + 1)) = Len(s) + 1
        \/ s # <<>> /\ Head(s) = "." /\ DigitRun(s, 2) >= 1 /\ 2 + DigitRun(s, 2) = Len(s) + 1

\* A float is kept as the decimal it was read from: the digits d of a natural
\* number and the count e of those that stand after the point.  NoNumber is None.
NoNumber == [none |-> TRUE, d |-> <<>>, e |-> 0]

\* float(num_str) for the digits before and after the point.
float(ip, fp) ==
    [none |-> FALSE, d |-> [i \in 1..(Len(ip) + Len(fp)) |-> DigitVal((ip \o fp)[i])],
     e |-> Len(fp)]

\* re.search(r'(\d*\.\d+|\d+\.?\d*)%?', v) from index p on: the first index
\* where digits, or a point followed by digits, start.
RECURSIVE FirstNumber(_, _)
FirstNumber(v, p) ==
    IF p > Len(v) THEN NoNumber
    ELSE LET n == DigitRun(v, p)
             m == IF p + n <= Len(v) /\ v[p + n] = "." THEN DigitRun(v, p + n + 1) ELSE 0
         IN  IF n = 0 /\ m = 0
             THEN FirstNumber(v, p + 1)
             ELSE float(SubSeq(v, p, p + n - 1), SubSeq(v, p + n + 1, p + n + m))

\* extract_numeric(value)
extract_numeric(value) == FirstNumber(Without(value, {",", "$"}), 1)

Max2(a, b) == IF a >= b THEN a ELSE b
Min2(a, b) == IF a <= b THEN a ELSE b

\* Natural numbers as digit sequences without leading zeros (0 is <<>>).
RECURSIVE Trim(_)
Trim(d) == IF d # <<>> /\ Head(d) = 0 THEN Trim(Tail(d)) ELSE d

Zeros(k) == [i \in 1..k |-> 0]

\* a < b, for two digit sequences of one length
RECURSIVE DigitsLess(_, _)
DigitsLess(a, b) ==
    IF a = <<>> THEN FALSE
    ELSE IF Head(a) = Head(b) THEN DigitsLess(Tail(a), Tail(b))
    ELSE Head(a) < Head(b)

\* a < b
NatLess(a, b) == Len(a) < Len(b) \/ (Len(a) = Len(b) /\ DigitsLess(a, b))

\* a - b - borrow for two digit sequences of one length, a >= b + borrow
RECURSIVE SubDigits(_, _, _)
SubDigits(a, b, borrow) ==
    IF a = <<>> THEN <<>>
    ELSE LET n == Len(a)
             x == a[n] - b[n] - borrow
         IN  Append(SubDigits(SubSeq(a, 1, n - 1), SubSeq(b, 1, n - 1), IF x < 0 THEN 1 ELSE 0),
                    IF x < 0 THEN x + 10 ELSE x)

\* a - b, for a >= b
NatSub(a, b) == Trim(SubDigits(a, Zeros(Len(a) - Len(b)) \o b, 0))

\* a + 1
RECURSIVE NatInc(_)
NatInc(a) ==
    IF a = <<>> THEN <<1>>
    ELSE IF a[Len(a)] = 9 THEN Append(NatInc(SubSeq(a, 1, Len(a) - 1)), 0)
    ELSE [a EXCEPT ![Len(a)] = @ + 1]

\* x as a multiple of 10^-e
Scaled(x, e) == Trim(x.d \o Zeros(e - x.e))

\* num1 == num2
NumEq(x, y) == Scaled(x, Max2(x.e, y.e)) = Scaled(y, Max2(x.e, y.e))

\* num < 1
BelowOne(x) == Len(Trim(x.d)) <= x.e

\* math.isclose(x, y, rel_tol=1e-2, abs_tol=10^-abs_places):
\* abs(x - y) <= max(rel_tol * max(abs(x), abs(y)), abs_tol)
isclose(x, y, abs_places) ==
    LET e == Max2(Max2(x.e, y.e), abs_places)
        a == Scaled(x, e)
        b == Scaled(y, e)
        hi == IF NatLess(a, b) THEN b ELSE a
        lo == IF NatLess(a, b) THEN a ELSE b
        diff == NatSub(hi, lo)
    IN  \/ ~NatLess(hi, Trim(diff \o <<0, 0>>))
        \/ ~NatLess(<<1>> \o Zeros(e - abs_places), diff)

\* len(str(num).split('.')[-1]): the digits str() prints after the point, one
\* ("0") for a whole number.
RECURSIVE dec_places(_)
dec_places(x) ==
    IF x.e > 0 /\ x.d[Len(x.d)] = 0
    THEN dec_places([x EXCEPT !.d = SubSeq(x.d, 1, Len(x.d) - 1), !.e = x.e - 1])
    ELSE IF x.e = 0 THEN 1 ELSE x.e

\* round(num, round_to): to the nearest multiple of 10^-round_to.  Where the
\* decimal stands at a tie the double read from it decides: the ties among
\* the answers scored here (0.05 to one place) are doubles above the tie.
round(x, round_to) ==
    IF x.e <= round_to THEN x
    ELSE LET kept == SubSeq(x.d, 1, Len(x.d) - (x.e - round_to))
         IN  [x EXCEPT !.d = IF x.d[Len(kept) + 1] >= 5 THEN NatInc(kept) ELSE kept,
                       !.e = round_to]

\* Mutant of compare_numeric: one tolerance for small and large numbers.
compare_numeric_one_tolerance(num1, num2) ==
    IF NumEq(num1, num2) THEN TRUE
    ELSE LET round_to == Min2(dec_places(num1), dec_places(num2))
         IN  IF NumEq(round(num1, round_to), round(num2, round_to)) THEN TRUE
             ELSE isclose(num1, num2, 2)

\* compare_numeric(num1, num2)
compare_numeric(num1, num2) ==
    IF NumEq(num1, num2) THEN TRUE
    ELSE IF BelowOne(num1) /\ BelowOne(num2)
    THEN isclose(num1, num2, 4)
    ELSE LET round_to == Min2(dec_places(num1), dec_places(num2))
         IN  IF NumEq(round(num1, round_to), round(num2, round_to)) THEN TRUE
             ELSE isclose(num1, num2, 2)

\* re.findall(r'\b\w+\b', s): the maximal runs of word characters, in order;
\* run is the one being read.
RECURSIVE findall_words(_, _)
findall_words(s, run) ==
    IF s = <<>> THEN (IF run = <<>> THEN <<>> ELSE <<run>>)
    ELSE IF Head(s) \in WordChars THEN findall_words(Tail(s), Append(run, Head(s)))
    ELSE IF run = <<>> THEN findall_words(Tail(s), <<>>)
    ELSE <<run>> \o findall_words(Tail(s), <<>>)

\* The length of the longest common run of a from i and b from j, within
\* a[..ahi] and b[..bhi].
RECURSIVE MatchLen(_, _, _, _, _, _)
MatchLen(a, i, ahi, b, j, bhi) ==
    IF i <= ahi /\ j <= bhi /\ a[i] = b[j] THEN 1 + MatchLen(a, i + 1, ahi, b, j + 1, bhi)
    ELSE 0

\* SequenceMatcher.find_longest_match on a[alo..ahi] and b[blo..bhi] (no junk):
\* the longest matching block, of those the one starting earliest in a, and of
\* those the one starting earliest in b.
find_longest_match(a, alo, ahi, b, blo, bhi) ==
    LET len == [i \in alo..ahi |-> [j \in blo..bhi |-> MatchLen(a, i, ahi, b, j, bhi)]]
        size == CHOOSE k \in 0..(ahi - alo + 1) :
                    /\ \A i \in alo..ahi, j \in blo..bhi : len[i][j] <= k
                    /\ k = 0 \/ \E i \in alo..ahi, j \in blo..bhi : len[i][j] = k
        i0 == CHOOSE i \in alo..ahi :
                    /\ \E j \in blo..bhi : len[i][j] = size
                    /\ \A h \in alo..(i - 1), j \in blo..bhi : len[h][j] # size
        j0 == CHOOSE j \in blo..bhi :
                    /\ len[i0][j] = size
                    /\ \A h \in blo..(j - 1) : len[i0][h] # size
    IN  [i |-> i0, j |-> j0, size |-> size]

\* sum(triple[-1] for triple in self.get_matching_blocks()) on a[alo..ahi] and
\* b[blo..bhi]: the longest block, then the same to its left and to its right.
RECURSIVE matches(_, _, _, _, _, _)
matches(a, alo, ahi, b, blo, bhi) ==
    IF alo > ahi \/ blo > bhi THEN 0
    ELSE LET m == find_longest_match(a, alo, ahi, b, blo, bhi)
         IN  IF m.size = 0 THEN 0
             ELSE m.size + matches(a, alo, m.i - 1, b, blo, m.j - 1)
                         + matches(a, m.i + m.size, ahi, b, m.j + m.size, bhi)

\* Mutant of similar: a ratio of 0.95 is enough.
similar_inclusive(str1, str2) ==
    200 * matches(str1, 1, Len(str1), str2, 1, Len(str2)) >= 95 * (Len(str1) + Len(str2))

\* SequenceMatcher(None, str1, str2).ratio() > 0.95, the ratio being
\* 2.0 * matches / (len(str1) + len(str2)), and 1.0 for two empty strings.
similar(str1, str2) ==
    200 * matches(str1, 1, Len(str1), str2, 1, Len(str2)) > 95 * (Len(str1) + Len(str2))

\* set(w)
ToSet(w) == {w[i] : i \in 1..Len(w)}

\* compare_strings(str1, str2)
compare_strings(str1, str2) ==
    IF SelectSeq(str1, LAMBDA c : c \in WordChars) = SelectSeq(str2, LAMBDA c : c \in WordChars)
    THEN TRUE
    ELSE LET words1 == findall_words(lower(str1), <<>>)
             words2 == findall_words(lower(str2), <<>>)
         IN  IF (Len(words1) = 1 \/ Len(words2) = 1) /\ words1 # <<>> /\ words2 # <<>>
             THEN ToSet(words1) \subseteq ToSet(words2) \/ ToSet(words2) \subseteq ToSet(words1)
             ELSE similar(str1, str2)

\* re.sub(r'^\[|\]$', '', s)
Unbracket(s) ==
    LET t == IF s # <<>> /\ Head(s) = "[" THEN Tail(s) ELSE s
    IN  IF t # <<>> /\ t[Len(t)] = "]" THEN SubSeq(t, 1, Len(t) - 1) ELSE t

\* re.split(r'[,;]', s): the pieces between the separators; piece is the one
\* being read.
RECURSIVE split(_, _)
split(s, piece) ==
    IF s = <<>> THEN <<piece>>
    ELSE IF Head(s) \in {",", ";"} THEN <<piece>> \o split(Tail(s), <<>>)
    ELSE split(Tail(s), Append(piece, Head(s)))

\* x < y for two str
RECURSIVE StrLess(_, _)
StrLess(x, y) ==
    IF y = <<>> THEN FALSE
    ELSE IF x = <<>> THEN TRUE
    ELSE IF Head(x) = Head(y) THEN StrLess(Tail(x), Tail(y))
    ELSE ord(Head(x)) < ord(Head(y))

\* x put into the sorted list items.
RECURSIVE Insert(_, _)
Insert(x, items) ==
    IF items = <<>> THEN <<x>>
    ELSE IF StrLess(x, Head(items)) THEN <<x>> \o items
    ELSE <<Head(items)>> \o Insert(x, Tail(items))

\* items.sort()
RECURSIVE sort(_)
sort(items) == IF items = <<>> THEN <<>> ELSE Insert(Head(items), sort(Tail(items)))

\* Mutant of ListItems: the items are not sorted.
ListItemsUnsorted(list) ==
    SelectSeq([i \in 1..Len(split(Unbracket(strip(list)), <<>>)) |->
                   strip(split(Unbracket(strip(list)), <<>>)[i])],
              LAMBDA item : item # <<>>)

\* compare_lists, the items of one list: brackets removed, split, stripped,
\* the empty ones dropped, sorted.
ListItems(list) ==
    LET pieces == split(Unbracket(strip(list)), <<>>)
    IN  sort(SelectSeq([i \in 1..Len(pieces) |-> strip(pieces[i])],
                       LAMBDA item : item # <<>>))

\* Mutant of Comparison: the list test comes before the grouped-number test.
ComparisonListFirst(input1, input2) ==
    IF \E c \in {";", ","} : c \in ToSet(input1) \/ c \in ToSet(input2)
    THEN "lists"
    ELSE IF is_numeric_with_commas(input1) \/ is_numeric_with_commas(input2)
    THEN "grouped_numbers"
    ELSE IF ~extract_numeric(input1).none /\ ~extract_numeric(input2).none
    THEN "numbers"
    ELSE "strings"

\* question_scorer, the cascade of its tests on the stripped, lower-case
\* inputs: which comparison gives the score.
Comparison(input1, input2) ==
    IF is_numeric_with_commas(input1) \/ is_numeric_with_commas(input2)
    THEN "grouped_numbers"
    ELSE IF \E c \in {";", ","} : c \in ToSet(input1) \/ c \in ToSet(input2)
    THEN "lists"
    ELSE IF ~extract_numeric(input1).none /\ ~extract_numeric(input2).none
    THEN "numbers"
    ELSE "strings"

\* question_scorer(input1, input2); compare_lists calls it for each pair of
\* items, in the sorted order, after the tests of equal lists and of equal
\* lengths.
RECURSIVE question_scorer(_, _)
question_scorer(input1, input2) ==
    LET s1 == lower(strip(input1))
        s2 == lower(strip(input2))
        num1 == extract_numeric(s1)
        num2 == extract_numeric(s2)
        items1 == ListItems(s1)
        items2 == ListItems(s2)
        how == Comparison(s1, s2)
    IN  IF how = "grouped_numbers"
        THEN IF ~num1.none /\ ~num2.none THEN compare_numeric(num1, num2) ELSE FALSE
        ELSE IF how = "lists"
        THEN IF items1 = items2 THEN TRUE
             ELSE IF Len(items1) # Len(items2) THEN FALSE
             ELSE \A k \in 1..Len(items1) : question_scorer(items1[k], items2[k])
        ELSE IF how = "numbers"
        THEN compare_numeric(num1, num2)
        ELSE compare_strings(s1, s2)

\* The answers scored: up to MaxItems different items, numbers and at most
\* one phrase, written with a separator between them: a comma, a semicolon
\* and a space, or nothing.
Numbers == {<<"1">>, <<"2", "3", "4">>}

Phrases ==
    {<<"A", " ", " ", "a", "b", "a", "a", "b", " ", "a", " ",
       "a", "a", "b", "b", "a", "a", "b", "b", "a">>,
     <<"a", " ", " ", "a", "b", "a", "a", "b", " ", "a", " ",
       "a", "a", "b", "b", "a", "b", "a", "b", " ", "b", "a">>}

Separators == {<<",">>, <<";", " ">>, <<>>}

ItemLists ==
    {l \in UNION {[1..n -> Numbers \cup Phrases] : n \in 1..MaxItems} :
        /\ \A i \in DOMAIN l, j \in DOMAIN l : l[i] = l[j] => i = j
        /\ Cardinality({i \in DOMAIN l : l[i] \in Phrases}) <= 1}

\* sep.join(items)
RECURSIVE join(_, _)
join(items, sep) ==
    IF items = <<>> THEN <<>>
    ELSE IF Len(items) = 1 THEN Head(items)
    ELSE Head(items) \o sep \o join(Tail(items), sep)

\* Single answers scored: numbers as they are written, and words and phrases.
NumberAnswers ==
    {<<"1", ",", "2", "3", "4", ".", "5", "0">>,
     <<"1", "2", "3", "4", ".", "5">>,
     <<"0", ".", "0", "5">>,
     <<"0", ".", "0", "5", "0", "5">>,
     <<"1", "0", "0">>,
     <<"1", "0", "5">>,
     <<"1", "0", "1">>,
     <<"1", ".", "2", "4">>,
     <<"1", ".", "2">>,
     <<"0">>,
     <<"0", ".", "0", "0", "0", "1">>,
     <<"0", ".", "0", "0", "0", "2">>}

TextAnswers ==
    {<<"T", "a", "b", "l", "e", "t">>,
     <<"T", "a", "b", "l", "e", "t", " ", "s", "a", "l", "e", "s">>,
     <<"s", "a", "l", "e", "s">>,
     <<>>,
     <<"t", "a", "b", "l", "e", "t", " ", "s", "a", "l", "e", "s", " ", "a", " ", "a", " ", "a", " ", "a">>,
     <<"t", "a", "b", "l", "e", "t", " ", "s", "a", "l", "e", "s", " ", "a", " ", "a", " ", "a", " ", "b">>,
     <<"t", "a", "b", "l", "e", "t", " ", "s", "a", "l", "e", "s", " ", "a", " ", "a", " ", "a", " ", "a", "b">>}

Answers == NumberAnswers \cup TextAnswers

NoSq == [pc |-> "idle", items1 |-> <<>>, sep1 |-> <<>>, items2 |-> <<>>, sep2 |-> <<>>,
         input1 |-> <<>>, input2 |-> <<>>, score |-> FALSE]

\* A caller invokes question_scorer(input1, input2) on two written lists.
ScorerCall(items1, sep1, items2, sep2) ==
    /\ sq.pc = "idle"
    /\ sq' = [pc |-> "scored", items1 |-> items1, sep1 |-> sep1,
              items2 |-> items2, sep2 |-> sep2,
              input1 |-> join(items1, sep1), input2 |-> join(items2, sep2),
              score |-> question_scorer(join(items1, sep1), join(items2, sep2))]
    /\ UNCHANGED <<outside_scorer, ev>>

\* The caller has taken the score.
ScorerReturn ==
    /\ sq.pc = "scored"
    /\ sq' = NoSq
    /\ UNCHANGED <<outside_scorer, ev>>

\* ---- utils/dabstep_utils.py: evaluate -------------------------------------------
\* str(v) of an int or a str
str(v) == StrVal(v[2])

\* The rows of tasks_with_gt: the task with its answer and level.
GroundTruth(task) ==
    [task_id |-> IntVal(task),
     answer |-> IF task = 1 THEN <<"1">> ELSE <<"2", "3", "4">>,
     level |-> IntVal(1)]

\* The rows agent_answers can have.
AnswerRows ==
    {[task_id |-> id, agent_answer |-> answer] :
        id \in {StrVal(task) : task \in Tasks}, answer \in Numbers}

\* A DataFrame of up to NumTasks rows.
Frames(rows) == UNION {[1..n -> rows] : n \in 0..NumTasks}

\* What evaluate gives: the list it returns, or the exception that leaves it;
\* scored counts the tasks it had scored by then.
Returned(task_scores) ==
    [raised |-> "none", task_scores |-> task_scores, scored |-> Len(task_scores)]
Raised(task_scores) ==
    [raised |-> "KeyError", task_scores |-> <<>>, scored |-> Len(task_scores)]

\* Mutant of evaluate_from: a task without an answer is skipped.
RECURSIVE evaluate_skipping(_, _, _, _)
evaluate_skipping(agent_answers, tasks_with_gt, index, task_scores) ==
    IF index > Len(tasks_with_gt) THEN Returned(task_scores)
    ELSE LET row == tasks_with_gt[index]
             task_id == str(row.task_id)
             found == SelectSeq(agent_answers, LAMBDA r : r.task_id = task_id)
         IN  IF found = <<>>
             THEN evaluate_skipping(agent_answers, tasks_with_gt, index + 1, task_scores)
             ELSE evaluate_skipping(agent_answers, tasks_with_gt, index + 1,
                      Append(task_scores,
                             [submission_id |-> "", task_id |-> task_id,
                              score |-> question_scorer(found[1].agent_answer, row.answer),
                              level |-> str(row.level),
                              agent_answer |-> found[1].agent_answer]))

\* The loop of evaluate from the row index of tasks_with_gt on, task_scores
\* being the list built so far.
RECURSIVE evaluate_from(_, _, _, _)
evaluate_from(agent_answers, tasks_with_gt, index, task_scores) ==
    IF index > Len(tasks_with_gt) THEN Returned(task_scores)
    ELSE LET row == tasks_with_gt[index]
             task_id == str(row.task_id)
             found == SelectSeq(agent_answers, LAMBDA r : r.task_id = task_id)
         IN  IF found = <<>>
             THEN Raised(task_scores)
             ELSE evaluate_from(agent_answers, tasks_with_gt, index + 1,
                      Append(task_scores,
                             [submission_id |-> "", task_id |-> task_id,
                              score |-> question_scorer(found[1].agent_answer, row.answer),
                              level |-> str(row.level),
                              agent_answer |-> found[1].agent_answer]))

\* evaluate(agent_answers, tasks_with_gt)
evaluate(agent_answers, tasks_with_gt) == evaluate_from(agent_answers, tasks_with_gt, 1, <<>>)

NoEv == [pc |-> "idle", agent_answers |-> <<>>, tasks_with_gt |-> <<>>,
         result |-> Returned(<<>>)]

\* A caller invokes evaluate(agent_answers, tasks_with_gt).
EvaluateCall(agent_answers, tasks_with_gt) ==
    /\ ev.pc = "idle"
    /\ ev' = [pc |-> "evaluated", agent_answers |-> agent_answers,
              tasks_with_gt |-> tasks_with_gt,
              result |-> evaluate(agent_answers, tasks_with_gt)]
    /\ UNCHANGED <<outside_scorer, sq>>

\* The caller has taken the list, or the exception.
EvaluateReturn ==
    /\ ev.pc = "evaluated"
    /\ ev' = NoEv
    /\ UNCHANGED <<outside_scorer, sq>>

\* ---- get_directory_listing, the returned dict -----------------------------------
\* The suffixes of the files of a directory.
Suffixes == {".csv", ".CSV", ".md", ".py", ".log", ""}

\* item.suffix.lower()
lower_suffix(suffix) == IF suffix = ".CSV" THEN ".csv" ELSE suffix

\* The entries of a directory: files, directories and entries that are neither
\* (a broken link, a socket).
Entries ==
    {[kind |-> "file", suffix |-> suffix] : suffix \in Suffixes}
        \cup {[kind |-> "dir", suffix |-> ""], [kind |-> "other", suffix |-> ""]}

\* file_info["category"] for an extension
Category(extension) ==
    IF extension \in {".csv", ".json", ".parquet", ".xlsx"} THEN "data"
    ELSE IF extension \in {".md", ".txt", ".pdf", ".doc", ".docx"} THEN "documentation"
    ELSE IF extension \in {".py", ".ipynb", ".r", ".sql"} THEN "code"
    ELSE "other"

\* The loop over the entries: files, the file_info of each.
RECURSIVE file_infos(_)
file_infos(items) ==
    IF items = <<>> THEN <<>>
    ELSE IF Head(items).kind = "file"
    THEN <<[extension |-> lower_suffix(Head(items).suffix),
            category |-> Category(lower_suffix(Head(items).suffix))]>>
             \o file_infos(Tail(items))
    ELSE file_infos(Tail(items))

\* ... and directories.
directory_infos(items) == SelectSeq(items, LAMBDA item : item.kind = "dir")

\* get_directory_listing(p) on a directory in condition dir that holds items:
\* the dict returned, or the exception.
dir_listing_dict(dir, p, items) ==
    LET listing == get_directory_listing(dir, p)
        listed == ~listing.raised /\ ~ListingError(listing)
        files == IF listed THEN file_infos(items) ELSE <<>>
        directories == IF listed THEN directory_infos(items) ELSE <<>>
    IN  [raised |-> listing.raised, status |-> listing.status, directory_path |-> p,
         total_files |-> Len(files), total_directories |-> Len(directories),
         files |-> files, directories |-> directories]

NoLs == [pc |-> "idle", dir |-> "none", items |-> <<>>,
         listing |-> dir_listing_dict("missing", None, <<>>)]

\* A caller invokes get_directory_listing(p).
ListingCall(p, dir, items) ==
    /\ ls.pc = "idle"
    /\ ls' = [pc |-> "listed", dir |-> dir, items |-> items,
              listing |-> dir_listing_dict(dir, p, items)]
    /\ UNCHANGED <<outside_startup, boot>>

\* The caller has taken the dict, or the exception.
ListingReturn ==
    /\ ls.pc = "listed"
    /\ ls' = NoLs
    /\ UNCHANGED <<outside_startup, boot>>

\* ---- utils/tracing.py ------------------------------------------------------
\* The endpoint strings: empty, blank, a URL, a URL after a blank.
Endpoints == {<<>>, <<" ">>, <<"a">>, <<" ", "a">>}

\* The endpoint argument: None (the default) or a str.
NoEndpoint == [given |-> FALSE, value |-> <<>>]
EndpointArgs == {NoEndpoint} \cup {[given |-> TRUE, value |-> e] : e \in Endpoints}

\* setup_smolagents_tracing(endpoint, enable_tracing, resource_name,
\* force_reinit) with _tracing_initialized = initialized, OTLP_ENDPOINT =
\* otlp_endpoint ("" when unset), and fails: building the provider, the
\* exporter or the instrumentation raises. It gives the returned value and
\* _tracing_initialized afterwards; the except clause returns False and
\* assigns nothing.
setup_smolagents_tracing(initialized, endpoint, enable_tracing, force_reinit, otlp_endpoint, fails) ==
    IF ~enable_tracing
    THEN [ret |-> FALSE, initialized |-> IF force_reinit THEN FALSE ELSE initialized]
    ELSE IF initialized /\ ~force_reinit
    THEN [ret |-> TRUE, initialized |-> initialized]
    ELSE LET stripped == strip(IF endpoint.given THEN endpoint.value ELSE otlp_endpoint)
         IN  IF stripped = <<>> THEN [ret |-> FALSE, initialized |-> FALSE]
             ELSE IF fails THEN [ret |-> FALSE, initialized |-> initialized]
             ELSE [ret |-> TRUE, initialized |-> TRUE]

NoTr == [pc |-> "idle", initialized |-> FALSE, initialized0 |-> FALSE,
         endpoint |-> NoEndpoint, enable_tracing |-> TRUE, force_reinit |-> FALSE,
         otlp_endpoint |-> <<>>, fails |-> FALSE, ret |-> FALSE]

\* is_tracing_enabled()
is_tracing_enabled == tracing.initialized

\* A caller invokes setup_smolagents_tracing.
TracingCall(endpoint, enable_tracing, force_reinit, otlp_endpoint, fails) ==
    /\ tracing.pc = "idle"
    /\ LET r == setup_smolagents_tracing(tracing.initialized, endpoint, enable_tracing,
                                         force_reinit, otlp_endpoint, fails)
       IN  tracing' = [pc |-> "returned", initialized |-> r.initialized,
                  initialized0 |-> tracing.initialized, endpoint |-> endpoint,
                  enable_tracing |-> enable_tracing, force_reinit |-> force_reinit,
                  otlp_endpoint |-> otlp_endpoint, fails |-> fails, ret |-> r.ret]
    /\ UNCHANGED outside_tracing

\* The caller has taken the returned value.
TracingReturn ==
    /\ tracing.pc = "returned"
    /\ tracing' = [NoTr EXCEPT !.initialized = tracing.initialized]
    /\ UNCHANGED outside_tracing

\* reset_tracing()
reset_tracing ==
    /\ tracing.pc = "idle"
    /\ tracing.initialized
    /\ tracing' = [tracing EXCEPT !.initialized = FALSE]
    /\ UNCHANGED outside_tracing

\* ---- specifications ---------------------------------------------------------
\* The state after construction: nothing cached, no call made, no file written.
Init ==
    /\ catalog_cache = None
    /\ catalog_ctx_path = None
    /\ objs = <<>>
    /\ runs = 0
    /\ shared_catalog = None
    /\ domain_knowledge = [k \in Tasks |-> "none"]
    /\ pc = [t \in Threads |-> "idle"]
    /\ cds = [t \in Threads |-> NoCds]
    /\ st = [t \in Threads |-> NoSt]
    /\ calls = 0
    /\ lib_log = <<>>
    /\ solve_log = <<>>
    /\ file_exists = {}
    /\ file_content = [file \in FileNames |-> <<>>]
    /\ append_answer_lock = None
    /\ ap = [t \in Threads |-> NoAp]
    /\ apc = [t \in Threads |-> "idle"]
    /\ ap_calls = 0
    /\ ap_log = <<>>
    /\ job = NoJob
    /\ run_log = <<>>
    /\ rt = NoRt
    /\ ro = NoRo
    /\ box = NoBox
    /\ edk = [t \in Threads |-> NoEdk]
    /\ edk_log = <<>>
    /\ boot = NoBoot
    /\ sq = NoSq
    /\ ev = NoEv
    /\ ls = NoLs
    /\ tracing = NoTr
    /\ trajectories = <<>>
    /\ execution_results = <<>>
    /\ message_history = <<>>

\* The steps of catalog_data_sources.
CdsStep(t) ==
    \/ CdsCheck(t)
    \/ CdsList(t)
    \/ CdsRunStart(t)
    \/ CdsRunEnd(t)
    \/ CdsStoreCache(t)
    \/ CdsStorePath(t)
    \/ CdsReturn(t)

\* One thread's next step of solve_task.
SolveStep(t) ==
    \/ \E task \in Tasks, mi \in 0..MaxIterations : SolveBegin(t, task, mi)
    \/ StCatalog(t)
    \/ CdsStep(t)
    \/ StExtract(t)
    \/ StExtractRun(t)
    \/ StStoreKnowledge(t)
    \/ StCreateTrajectory(t)
    \/ StLoop(t)
    \/ StExecute(t)
    \/ StEvaluate(t)
    \/ StAdvance(t)
    \/ StReturn(t)

\* One thread's next step of a direct use of the Librarian.
LibStep(t) ==
    \/ \E p \in Paths, force \in BOOLEAN : CatalogCall(t, p, force)
    \/ CdsStep(t)

\* Sequential solve_task calls on one orchestrator (run.py's task loop).
Next == SolveStep(MainThread)
Spec == Init /\ [][Next]_vars

\* Sequential catalog_data_sources calls on one LibrarianAgent.
NextLib == LibStep(MainThread)
SpecLib == Init /\ [][NextLib]_vars

\* Concurrent catalog_data_sources calls on one LibrarianAgent.
NextLibConc == \E t \in Threads : LibStep(t)
SpecLibConc == Init /\ [][NextLibConc]_vars

\* Runs of main in the environments it can be started in.
NextStartup ==
    \/ \E env \in SUBSET Settings : MainParseArgs(env)
    \/ MainDownload
    \/ MainTask
    \/ MainEnd
SpecStartup == Init /\ [][NextStartup]_vars

\* question_scorer calls, one after the other.
NextScorer ==
    \/ \E items1 \in ItemLists, items2 \in ItemLists, sep1 \in Separators, sep2 \in Separators :
          /\ Len(items1) = 1 => sep1 = <<",">>
          /\ Len(items2) = 1 => sep2 = <<",">>
          /\ ScorerCall(items1, sep1, items2, sep2)
    \/ ScorerReturn
SpecScorer == Init /\ [][NextScorer]_vars

\* question_scorer calls on single answers, one after the other.
NextAnswers ==
    \/ \E answer1 \in Answers, answer2 \in Answers :
          ScorerCall(<<answer1>>, <<",">>, <<answer2>>, <<",">>)
    \/ ScorerReturn
SpecAnswers == Init /\ [][NextAnswers]_vars

\* get_directory_listing calls, one after the other.
NextListing ==
    \/ \E p \in Paths, dir \in DirStates,
          items \in UNION {[1..n -> Entries] : n \in 0..MaxItems} :
          ListingCall(p, dir, items)
    \/ ListingReturn
SpecListing == Init /\ [][NextListing]_vars

\* Calls of setup_smolagents_tracing and reset_tracing, one after the other.
NextTracing ==
    \/ \E endpoint \in EndpointArgs, enable_tracing \in BOOLEAN, force_reinit \in BOOLEAN,
          otlp_endpoint \in Endpoints, fails \in BOOLEAN :
          TracingCall(endpoint, enable_tracing, force_reinit, otlp_endpoint, fails)
    \/ TracingReturn
    \/ reset_tracing
SpecTracing == Init /\ [][NextTracing]_vars

\* evaluate calls, one after the other.
NextEvaluate ==
    \/ \E agent_answers \in Frames(AnswerRows),
          tasks_with_gt \in Frames({GroundTruth(task) : task \in Tasks}) :
          EvaluateCall(agent_answers, tasks_with_gt)
    \/ EvaluateReturn
SpecEvaluate == Init /\ [][NextEvaluate]_vars

\* One thread's next step of a direct extract_domain_knowledge call.
EdkStep(t) ==
    \/ \E p \in Paths, catalog \in {None, get_catalog} : ExtractCall(t, p, catalog)
    \/ EdkResolve(t)
    \/ CdsStep(t)
    \/ EdkCatalog(t)
    \/ EdkCheck(t)
    \/ EdkRun(t)
    \/ EdkReturn(t)

\* Sequential extract_domain_knowledge calls on one LibrarianAgent.
NextExtract == EdkStep(MainThread)
SpecExtract == Init /\ [][NextExtract]_vars

\* Concurrent solve_task calls sharing one orchestrator and its Librarian.
NextConc == \E t \in Threads : SolveStep(t)
SpecConc == Init /\ [][NextConc]_vars

\* The steps of append_answer.
ApStep(t) ==
    \/ ApAcquire(t)
    \/ ApOpen(t)
    \/ ApFlush(t)
    \/ ApClose(t)
    \/ ApRelease(t)

\* Concurrent append_answer calls (the workers of the thread pool).
NextAppend ==
    \E t \in Threads :
        \/ \E size \in 1..MaxChunks : AppendCall(t, size)
        \/ ApStep(t)
SpecAppend == Init /\ [][NextAppend]_vars

\* Runs of main, one after the other, with the same run directory.
NextRun ==
    \/ \E total \in 0..NumTasks, tasks_ids \in {NoTasksIds} \cup SUBSET Tasks :
          MainBegin(total, tasks_ids)
    \/ MainLoop
    \/ RunSingleTask
    \/ ApStep(MainThread)
SpecRun == Init /\ [][NextRun]_vars

\* One call of the model with its retries.
NextRetry ==
    \/ ModelCall
    \/ ModelAttempt
    \/ ModelSleep
SpecRetry == Init /\ [][NextRetry]_vars

\* ... every step of which is eventually taken: the invocation answers or
\* raises, the sleep ends.
SpecRetryFair == SpecRetry /\ WF_vars(NextRetry)

\* A code agent: construction, executor re-initializations and task runs
\* whose code calls open.
NextSandbox ==
    \/ AgentInit
    \/ SetupExecutor
    \/ AgentRun
    \/ \E pos \in Modes \cup {NoMode}, kw \in Modes \cup {NoMode} : ExecutorOpen(pos, kw)
    \/ ExecutorOpenDone
    \/ AgentRunEnd
SpecSandbox == Init /\ [][NextSandbox]_vars

\* ---- properties -------------------------------------------------------------
\* C1: a solve_task call that returns for a trajectory of k steps with
\* max_iterations >= k returns status "completed" after exactly k iterations,
\* with k executor invocations (of steps 0..k-1, in order) and k strategist
\* evaluations; no call ever hands a step index >= k to the executor.
C1_CompletesInExactlyKIterations ==
    /\ \A i \in 1..Len(solve_log) :
         LET r == solve_log[i]
             k == Len(r.steps)
         IN  (r.returned /\ r.max_iterations >= k) =>
                /\ r.status = "completed"
                /\ r.iterations = k
                /\ r.executed = [n \in 1..k |-> n - 1]
                /\ r.evals = k
                /\ r.current_step = k
    /\ \A t \in Threads : \A n \in 1..Len(st[t].executed) :
         st[t].executed[n] \in 0..(Len(st[t].steps) - 1)

\* C1 witness: a call with an iteration budget above k has returned completed
\* after k iterations.
C1_Witness ==
    \E i \in 1..Len(solve_log) :
        /\ solve_log[i].returned
        /\ solve_log[i].max_iterations > Len(solve_log[i].steps)
        /\ solve_log[i].status = "completed"
        /\ solve_log[i].iterations = Len(solve_log[i].steps)
        /\ Len(solve_log[i].executed) = Len(solve_log[i].steps)

\* C2: a solve_task call that returns with max_iterations < k has run exactly
\* max_iterations iterations (that many executor and strategist invocations),
\* returns that count, and leaves the trajectory in the non-terminal status it
\* had (pending).
C2_HaltsAtIterationBound ==
    \A i \in 1..Len(solve_log) :
        LET r == solve_log[i]
        IN  (r.returned /\ r.max_iterations < Len(r.steps)) =>
               /\ r.iterations = r.max_iterations
               /\ Len(r.executed) = r.max_iterations
               /\ r.evals = r.max_iterations
               /\ r.current_step = r.max_iterations
               /\ r.status = "pending"

\* C2 witness: a call whose budget is below the number of steps has returned.
C2_Witness ==
    \E i \in 1..Len(solve_log) :
        /\ solve_log[i].returned
        /\ solve_log[i].max_iterations < Len(solve_log[i].steps)
        /\ solve_log[i].iterations = solve_log[i].max_iterations
        /\ solve_log[i].status = "pending"

\* C3: of two consecutive catalog_data_sources calls for one path, both with
\* force_refresh = false and the first returning a catalog (built or cached),
\* the second returns the identical dict and starts no Librarian run; when the
\* first call built the catalog, the two calls together ran the Librarian once.
C3_SecondCallReusesCatalog ==
    \A i \in 1..(Len(lib_log) - 1) :
        LET a == lib_log[i]
            b == lib_log[i + 1]
        IN  ( /\ ~a.force_refresh /\ ~b.force_refresh
              /\ a.ctx_path = b.ctx_path
              /\ a.outcome \in {"built", "hit"} ) =>
               /\ b.outcome = "hit"
               /\ b.ret = a.ret
               /\ b.runs = b.runs0
               /\ a.outcome = "built" => b.runs - a.runs0 = 1
               /\ a.outcome = "hit" => b.runs = a.runs0

\* C3 witness: a building call followed by a call for the same path that got
\* the same dict back.
C3_Witness ==
    \E i \in 1..(Len(lib_log) - 1) :
        /\ ~lib_log[i].force_refresh /\ lib_log[i].outcome = "built"
        /\ ~lib_log[i + 1].force_refresh
        /\ lib_log[i + 1].ctx_path = lib_log[i].ctx_path
        /\ lib_log[i + 1].ret = lib_log[i].ret

\* C5: a call that ends in a directory-listing error returns an error dict,
\* runs no model and leaves the cache as it was: has_catalog(path) is false
\* afterwards if it was false before, get_catalog() is not the error dict, and
\* the next call for that path does not take the cache branch.
C5_ErrorCatalogNotCached ==
    /\ \A i \in 1..Len(lib_log) :
         LET r == lib_log[i]
         IN  r.outcome = "error" =>
                /\ objs[r.ret].error
                /\ r.runs = r.runs0
                /\ r.cached = r.cached0
                /\ r.cached # r.ret
                /\ r.has = r.had
    /\ \A i \in 1..(Len(lib_log) - 1) :
         LET a == lib_log[i]
             b == lib_log[i + 1]
         IN  (a.outcome = "error" /\ ~a.had /\ b.ctx_path = a.ctx_path) =>
                b.outcome \in {"error", "built", "raised"}

\* C5 witness: an error return for an uncached path, then a call for that path
\* that went through construction again and was cached.
C5_Witness ==
    \E i \in 1..(Len(lib_log) - 1) :
        /\ lib_log[i].outcome = "error" /\ ~lib_log[i].had /\ ~lib_log[i].has
        /\ lib_log[i + 1].ctx_path = lib_log[i].ctx_path
        /\ ~lib_log[i + 1].force_refresh
        /\ lib_log[i + 1].outcome = "built"

\* C7 as stated: every force_refresh = true call starts a new Librarian run
\* and leaves its freshly built dict, not the prior one, in the cache.
C7_Original ==
    \A i \in 1..Len(lib_log) :
        LET r == lib_log[i]
        IN  r.force_refresh =>
               /\ r.runs = r.runs0 + 1
               /\ r.has
               /\ r.cached = r.ret
               /\ r.ret # r.cached0

\* C7 amended: a force_refresh = true call never takes the cache branch; when
\* the directory listing succeeds it starts exactly one new Librarian run, and
\* when that run returns, the new dict replaces the cached value (whatever was
\* cached before) and get_catalog() returns it; when the listing fails (an
\* error status, or an exception) no run is started, and a call that ends in
\* an error dict or an exception leaves the cache as it was.
C7_ForceRefreshRebuilds ==
    \A i \in 1..Len(lib_log) :
        LET r == lib_log[i]
        IN  r.force_refresh =>
               /\ r.outcome \in {"built", "raised", "error"}
               /\ r.outcome = "built" =>
                     /\ r.runs = r.runs0 + 1
                     /\ r.has
                     /\ r.cached = r.ret
                     /\ r.cached_path = r.ctx_path
                     /\ r.ret # r.cached0
                     /\ ~objs[r.ret].error
               /\ r.outcome = "error" =>
                     /\ r.runs = r.runs0
                     /\ r.cached = r.cached0
               /\ r.outcome = "raised" =>
                     /\ r.runs \in {r.runs0, r.runs0 + 1}
                     /\ r.cached = r.cached0

\* C7 witness: a forced refresh of a path that was cached built a new dict,
\* which is now the cached one.
C7_Witness ==
    \E i \in 1..Len(lib_log) :
        /\ lib_log[i].force_refresh /\ lib_log[i].had
        /\ lib_log[i].outcome = "built"
        /\ lib_log[i].cached = lib_log[i].ret
        /\ lib_log[i].ret # lib_log[i].cached0

\* All calls i..j of lib_log were made with force_refresh = false.
NoRefresh(i, j) == \A k \in i..j : ~lib_log[k].force_refresh

Building ==
    {t \in Threads : pc[t] \in {"cds_list", "cds_run", "cds_running",
                                "cds_store_cache", "cds_store_path"}}

\* C4: under concurrent solve_task calls for the same corpus path no two
\* catalog builds are in flight together, and at most one catalog is built.
C4_AtMostOneBuild ==
    /\ Cardinality(Building) <= 1
    /\ Cardinality({i \in 1..Len(objs) : ~objs[i].error}) <= 1

\* C6: when a solve_task call got an error catalog from catalog construction,
\* the next solve_task call on the orchestrator does not reuse it: it goes
\* through catalog construction again.
C6_ErrorCatalogNotRetained ==
    \A i \in 1..(Len(solve_log) - 1) :
        solve_log[i].cat = "error" => solve_log[i + 1].cat # "reused"

\* C9: once a solve_task call has built the catalog, every later call takes
\* the catalog from shared state without calling the Librarian for it, no
\* further Librarian build is ever started, and each call hands that one dict
\* both to extraction and (as data_catalog) to planning.
C9_CatalogBuiltOnce ==
    /\ \A i \in 1..Len(solve_log) :
         solve_log[i].cat = "built" =>
            /\ solve_log[i].extract_catalog = solve_log[i].data_catalog
            /\ ~objs[solve_log[i].data_catalog].error
            /\ runs = solve_log[i].runs
            /\ shared_catalog = solve_log[i].data_catalog
            /\ \A j \in (i + 1)..Len(solve_log) :
                 /\ solve_log[j].cat = "reused"
                 /\ solve_log[j].data_catalog = solve_log[i].data_catalog
                 /\ solve_log[j].extract_catalog = solve_log[i].data_catalog
                 /\ solve_log[j].runs = solve_log[i].runs
    /\ Cardinality({i \in 1..Len(objs) : ~objs[i].error}) <= 1

\* C9 witness: a call built the catalog and a later call returned after
\* working with that same dict.
C9_Witness ==
    \E i \in 1..Len(solve_log), j \in 1..Len(solve_log) :
        /\ i < j
        /\ solve_log[i].cat = "built"
        /\ solve_log[j].returned
        /\ solve_log[j].cat = "reused"
        /\ solve_log[j].extract_catalog = solve_log[i].data_catalog

\* The status edges pending -> in_progress -> {completed, failed}, with the
\* creation of a trajectory (none -> pending) and its disposal (-> none).
StatusEdges ==
    {<<"none", "pending">>, <<"pending", "in_progress">>,
     <<"in_progress", "completed">>, <<"in_progress", "failed">>,
     <<"pending", "none">>, <<"in_progress", "none">>,
     <<"completed", "none">>, <<"failed", "none">>}

\* C10: a trajectory starts pending with current_step 0 and one step, its
\* status moves only along pending -> in_progress -> {completed, failed}, and
\* it is in_progress while the loop executes, evaluates and advances a step.
C10_StatusMachine ==
    /\ [](\A t \in Threads :
            /\ pc[t] = "st_loop" /\ st[t].iteration = 0 =>
                  /\ st[t].status = "pending"
                  /\ st[t].current_step = 0
                  /\ Len(st[t].steps) = 1
            /\ pc[t] \in {"st_execute", "st_evaluate", "st_advance"} =>
                  st[t].status = "in_progress")
    /\ [][\A t \in Threads :
            st[t].status # st'[t].status =>
               <<st[t].status, st'[t].status>> \in StatusEdges]_vars

\* The TaskTrajectory fields of a solve_task frame or of a solve_log record.
Trajectory(x) ==
    [steps |-> x.steps, current_step |-> x.current_step, status |-> x.status,
     executed |-> x.executed]

\* The trajectories that exist: the one of each solve_task call in progress
\* and the final one of each completed call.
Trajectories ==
    {Trajectory(st[t]) : t \in {u \in Threads : st[u].status # "none"}}
    \cup {Trajectory(solve_log[i]) :
             i \in {j \in 1..Len(solve_log) : solve_log[j].status # "none"}}

\* C11: current_step of a trajectory never exceeds len(steps), and the status
\* is completed whenever current_step equals len(steps).
C11_CurrentStepWithinSteps ==
    \A tr \in Trajectories :
        /\ tr.current_step <= Len(tr.steps)
        /\ tr.current_step = Len(tr.steps) => tr.status = "completed"

\* C11 witness: the loop has advanced current_step up to len(steps) and the
\* trajectory is completed.
C11_Witness ==
    \E t \in Threads :
        /\ pc[t] = "st_return"
        /\ Len(st[t].steps) >= 1
        /\ st[t].current_step = Len(st[t].steps)
        /\ st[t].status = "completed"

\* C12: within one solve_task call no step index is handed to the executor
\* twice (the executed indices strictly increase), and every executed index
\* lies below current_step once its iteration is over.
C12_StepExecutedAtMostOnce ==
    /\ \A tr \in Trajectories :
         \A m \in 1..Len(tr.executed), n \in 1..Len(tr.executed) :
            m < n => tr.executed[m] < tr.executed[n]
    /\ \A t \in Threads :
         /\ pc[t] \in {"st_loop", "st_execute", "st_return"} =>
               \A n \in 1..Len(st[t].executed) : st[t].executed[n] < st[t].current_step
         /\ pc[t] \in {"st_evaluate", "st_advance"} =>
               \A n \in 1..Len(st[t].executed) : st[t].executed[n] <= st[t].current_step

\* C12 witness: a call with iterations to spare has returned after handing
\* step 0 to the executor exactly once.
C12_Witness ==
    \E i \in 1..Len(solve_log) :
        /\ solve_log[i].returned
        /\ solve_log[i].max_iterations > Len(solve_log[i].executed)
        /\ solve_log[i].executed = <<0>>
        /\ solve_log[i].current_step = 1

\* The n-th role call of a solve_task call: catalog resolution, extraction,
\* planning, then execute, evaluate, advance in turn.
RoleAt(n) ==
    IF n = 1 THEN "catalog"
    ELSE IF n = 2 THEN "extract"
    ELSE IF n = 3 THEN "plan"
    ELSE IF (n - 4) % 3 = 0 THEN "execute"
    ELSE IF (n - 4) % 3 = 1 THEN "evaluate"
    ELSE "advance"

\* The number of entries of trace that are role.
Count(trace, role) == Cardinality({n \in 1..Len(trace) : trace[n] = role})

\* The role calls made so far by each call in progress and by each completed call.
Traces ==
    {st[t].trace : t \in Threads} \cup {solve_log[i].trace : i \in 1..Len(solve_log)}

\* C13: the role calls of a solve_task call come in the order catalog
\* resolution, extraction, create_trajectory, then (execute_step,
\* evaluate_and_decide, advance) repeated; a step is handed to the executor
\* only when every earlier step has been evaluated, and current_step counts
\* the evaluations made, whatever each decision said.
C13_RoleOrder ==
    /\ \A trace \in Traces : \A n \in 1..Len(trace) : trace[n] = RoleAt(n)
    /\ \A t \in Threads :
         /\ pc[t] = "st_execute" => Len(st[t].executed) = st[t].evals
         /\ pc[t] = "st_evaluate" => Len(st[t].executed) = st[t].evals + 1
         /\ pc[t] \in {"st_loop", "st_execute", "st_evaluate", "st_return"} =>
               /\ st[t].current_step = st[t].evals
               /\ st[t].current_step = Count(st[t].trace, "advance")
         /\ pc[t] = "st_advance" => st[t].current_step = st[t].evals - 1
    /\ \A i \in 1..Len(solve_log) :
         solve_log[i].returned =>
            /\ solve_log[i].current_step = solve_log[i].evals
            /\ solve_log[i].current_step = Count(solve_log[i].trace, "advance")

\* C13 witness: a call is about to return after catalog, extract, plan,
\* execute, evaluate, advance, its current_step advanced although the decision
\* was not "continue".
C13_Witness ==
    \E t \in Threads :
        /\ pc[t] = "st_return"
        /\ st[t].trace = <<"catalog", "extract", "plan", "execute", "evaluate", "advance">>
        /\ st[t].decision # "continue"
        /\ st[t].current_step = 1

\* C14: no trajectory is ever failed, during or after solve_task, whatever the
\* executor result and the decision text were, and the steps of a trajectory
\* stay what create_trajectory made them.
C14_NeverFailed ==
    /\ [](\A tr \in Trajectories : tr.status # "failed")
    /\ [][\A t \in Threads :
            (st[t].status # "none" /\ st'[t].status # "none") =>
               st'[t].steps = st[t].steps]_vars

\* C14 witness: a call whose executor reported an error and whose strategist
\* decided "fail" returns completed, with the one step of the plan.
C14_Witness ==
    \E t \in Threads :
        /\ pc[t] = "st_return"
        /\ st[t].executor_result = "error"
        /\ st[t].decision = "fail"
        /\ st[t].status = "completed"
        /\ Len(st[t].steps) = InitialPlanSteps

\* C15: a task whose answer is in the answer log when a run starts is not
\* selected by that run: the agent is not invoked for it again.
C15_ResumeBySkip ==
    \A r \in {job} \cup {run_log[i] : i \in 1..Len(run_log)} :
        \A n \in 1..Len(r.invoked) : StrVal(r.invoked[n]) \notin r.logged0

\* C16: a run that ends has gone through every task it selected, whether or
\* not run_single_task raised for one of them, and the answers that were in
\* the answer log when a run started are still in it.
C16_FailedTaskDoesNotAbort ==
    /\ \A i \in 1..Len(run_log) :
         Len(run_log[i].invoked) = Len(run_log[i].tasks_to_run)
    /\ \A r \in {job} \cup {run_log[i] : i \in 1..Len(run_log)} :
         r.logged0 \subseteq Logged

\* No line of content mixes pieces of two entries: a piece continues the
\* line of the piece before it, or starts a line where the last one ended.
NoMixedLine(content) ==
    \A k \in 1..Len(content) :
        IF content[k].part = 1
        THEN k = 1 \/ IsLineEnd(content[k - 1])
        ELSE /\ k > 1
             /\ content[k - 1].id = content[k].id
             /\ content[k - 1].part = content[k].part - 1

\* C17: under concurrent append_answer calls no line of an answers file mixes
\* two entries, the file ends in a complete line whenever the lock is free,
\* every completed call has exactly one complete line holding its entry, and
\* with no call in progress the files hold one line per completed call.
C17_AppendsSerialized ==
    /\ \A file \in FileNames :
         /\ NoMixedLine(file_content[file])
         /\ (append_answer_lock = None /\ file_content[file] # <<>>) =>
               IsLineEnd(file_content[file][Len(file_content[file])])
    /\ \A i \in 1..Len(ap_log) :
         LET c == ap_log[i]
             content == file_content[c.jsonl_file]
             ends == {k \in 1..Len(content) : content[k].id = c.id /\ IsLineEnd(content[k])}
         IN  /\ Cardinality(ends) = 1
             /\ \A k \in ends : content[k].entry = c.entry
             /\ c.jsonl_file \in file_exists
    /\ (\A t \in Threads : apc[t] = "idle") =>
          Len(Lines(file_content[AnswersFile])) + Len(Lines(file_content[ResumeFile]))
             = Len(ap_log)

\* C17 witness: a call waits for the lock while another call, holding it, has
\* part of its line in the same file.
C17_Witness ==
    \E t \in Threads, u \in Threads :
        /\ t # u
        /\ apc[t] = "ap_write" /\ ap[t].flushed >= 1
        /\ apc[u] = "ap_lock"
        /\ ap[u].jsonl_file = ap[t].jsonl_file
        /\ Len(ap_log) >= 1

\* C18: a wait and a further attempt follow only an exception of kind
\* Timeout, RateLimitError, APIConnectionError or InternalServerError; any
\* other exception propagates from the attempt that raised it, with no
\* invocation and no sleep after it, earlier transient retries or not.
C18_RetriesOnlyTransient ==
    LET transient ==
            {"Timeout", "RateLimitError", "APIConnectionError", "InternalServerError"}
    IN  /\ rt.pc = "sleep" => rt.exc \in transient
        /\ rt.pc \in {"attempt", "sleep"} =>
              /\ rt.transient = rt.invocations
              /\ rt.sleeps = rt.attempt_number - 1
        /\ (rt.pc = "raised" /\ rt.exc # "RetryError") =>
              /\ rt.exc \notin transient
              /\ rt.invocations = rt.attempt_number
              /\ rt.sleeps = rt.attempt_number - 1
              /\ rt.transient = rt.attempt_number - 1

\* C18 witness: an exception of another kind has propagated after earlier
\* transient failures were retried.
C18_Witness ==
    /\ rt.pc = "raised"
    /\ rt.exc = "BadRequestError"
    /\ rt.transient >= 2
    /\ rt.invocations = rt.transient + 1

\* C19: a call makes at most 450 invocations; it gives up on transient
\* failures only after 450 of them in a row; a response of attempt n is
\* returned after exactly n invocations; and every call ends.
C19_AtMost450Attempts ==
    /\ [](/\ rt.invocations <= 450
          /\ (rt.pc = "raised" /\ rt.exc = "RetryError") =>
                rt.invocations = 450 /\ rt.transient = 450
          /\ rt.pc = "returned" =>
                /\ rt.attempt_number <= 450
                /\ rt.invocations = rt.attempt_number
                /\ rt.transient = rt.attempt_number - 1)
    /\ <>(rt.pc \in {"returned", "raised"})

\* C19 witness: the call has given up after its 450th transient failure.
C19_Witness ==
    /\ rt.pc = "raised"
    /\ rt.exc = "RetryError"
    /\ rt.invocations = 450

\* C20: the wait after the n-th failed attempt is a base delay of
\* min(2^(n-1), 120) seconds, at least 1, plus a jitter of 0 to 5 seconds; the
\* base doubles from attempt to attempt up to 120, and no wait is above 125.
C20_WaitBounds ==
    rt.pc = "sleep" =>
        LET n == rt.attempt_number
        IN  /\ rt.base = (IF n <= 7 THEN 2 ^ (n - 1) ELSE 120)
            /\ rt.base >= 1
            /\ rt.jitter >= 0 /\ rt.jitter <= 5
            /\ rt.base + rt.jitter <= 125

\* C20 witness: the wait after the 8th failed attempt is the ceiling of 120
\* seconds plus the largest jitter.
C20_Witness ==
    /\ rt.pc = "sleep"
    /\ rt.attempt_number = 8
    /\ rt.base = 120
    /\ rt.jitter = 5

\* C21: a read_only_open call whose mode, positional or keyword, holds 'w',
\* 'a', 'x' or '+' or lacks 'r' raises PermissionError and does not reach the
\* builtin open; no call creates or modifies a file.
C21_WriteModesRejected ==
    LET bad(m) == "r" \notin m \/ "w" \in m \/ "a" \in m \/ "x" \in m \/ "+" \in m
    IN  /\ ( (ro.pos # NoMode /\ bad(ro.pos)) \/ (ro.kw # NoMode /\ bad(ro.kw)) ) =>
               /\ ro.raised = "PermissionError"
               /\ ro.opened = NoMode
        /\ ~ro.wrote
        /\ ro.opened \in {NoMode, {"r"}, {"r", "b"}}

\* C21 witness: a request to append, the mode given by keyword, has been
\* rejected, nothing opened.
C21_Witness ==
    /\ ro.raised = "PermissionError"
    /\ ro.opened = NoMode
    /\ ro.pos = NoMode
    /\ ro.kw = {"a", "b"}

\* The four names are registered: open is read_only_open, the others raise
\* PermissionError.
Restricted(e) ==
    /\ e.has_static_tools
    /\ e.static_tools["open"] = "read_only_open"
    /\ \A n \in {"exec", "eval", "compile"} : e.static_tools[n] = "blocked"

\* C22: once a BaseCodeAgent is constructed, and after every _setup_executor
\* and in every task run, its executor has read_only_open for open and the
\* blocking primitives for exec, eval and compile.
C22_ExecutorAlwaysRestricted ==
    box.pc # "none" => Restricted(box.executor)

\* ---- extract_domain_knowledge -------------------------------------------------
\* C23: whenever the corpus directory is missing or unreadable,
\* extract_domain_knowledge returns an error result (knowledge_response with
\* an error field) instead of raising, the error text is the message of the
\* directory read, and the extraction's model run is not made.
C23_CorpusErrorsReturned ==
    \A i \in DOMAIN edk_log :
        edk_log[i].dir \in {"missing", "unreadable"}
            => /\ edk_log[i].outcome = "error"
               /\ edk_log[i].error = DoesNotExist(edk_log[i].ctx_path)
               /\ ~edk_log[i].ran

AfterStore == {"st_plan", "st_loop", "st_execute", "st_evaluate", "st_advance", "st_return"}

\* C25: once solve_task(task) has performed its extraction, the
\* domain-knowledge map holds an entry under the task, and no step of any
\* solve_task call removes an entry: the key set only grows, and
\* get_domain_knowledge(t) stays non-None for every task solved so far.
C25_KnowledgeKeptPerTask ==
    /\ [](\A t \in Threads :
            pc[t] \in AfterStore => get_domain_knowledge(st[t].task) # "none")
    /\ [][\A k \in Tasks :
            get_domain_knowledge(k) # "none" => domain_knowledge'[k] # "none"]_vars

C25_Witness ==
    /\ Len(solve_log) = 2
    /\ \A i \in 1..2 : solve_log[i].returned
    /\ get_domain_knowledge(1) = "ok"
    /\ get_domain_knowledge(2) = "error"

\* ---- configuration ------------------------------------------------------------
\* C26: a run of main started with a required setting missing stops before any
\* work: it neither downloads the corpus nor runs a task.
C26_MissingSettingIsFatal ==
    (boot.pc # "idle" /\ required_vars \ boot.env # {})
        => (~boot.downloaded /\ boot.tasks = 0)


\* ---- evaluate ------------------------------------------------------------------
\* The rows of tasks_with_gt whose task_id, as a str, is not among the task_id
\* values of agent_answers.
Absent(agent_answers, tasks_with_gt) ==
    {i \in 1..Len(tasks_with_gt) :
        \A k \in 1..Len(agent_answers) :
            agent_answers[k].task_id # str(tasks_with_gt[i].task_id)}

\* C27: evaluate raises KeyError at the first ground-truth task whose id is
\* absent from the answers, having scored the tasks before it and returning no
\* list; with no id absent it returns one record for each ground-truth task,
\* in their order, each with the id of its task.
C27_EvaluateRaisesOrScoresAll ==
    ev.pc = "evaluated" =>
        LET absent == Absent(ev.agent_answers, ev.tasks_with_gt) IN
        IF absent # {}
        THEN /\ ev.result.raised = "KeyError"
             /\ ev.result.task_scores = <<>>
             /\ \A i \in absent : ev.result.scored < i
             /\ ev.result.scored + 1 \in absent
        ELSE /\ ev.result.raised = "none"
             /\ Len(ev.result.task_scores) = Len(ev.tasks_with_gt)
             /\ \A i \in 1..Len(ev.tasks_with_gt) :
                    ev.result.task_scores[i].task_id = str(ev.tasks_with_gt[i].task_id)

C27_Witness ==
    /\ ev.pc = "evaluated"
    /\ Len(ev.tasks_with_gt) = 2
    /\ Len(ev.agent_answers) = 1
    /\ ev.agent_answers[1].task_id = str(ev.tasks_with_gt[1].task_id)
    /\ ev.tasks_with_gt[2].task_id # ev.tasks_with_gt[1].task_id
    /\ ev.result.raised = "KeyError"
    /\ ev.result.scored = 1

\* ---- question_scorer -----------------------------------------------------------
\* The inputs as question_scorer compares them: stripped and in lower case.
Cleaned(input) == lower(strip(input))

\* C28: when either input matches the grouped-number pattern, the score is
\* that of the comparison of the two extracted numbers, whatever separators
\* the inputs hold, and it is false when either extraction gives None;
\* "1,234" against "1234" scores true.
C28_GroupedNumbersBeforeLists ==
    sq.pc = "scored" =>
        LET num1 == extract_numeric(Cleaned(sq.input1))
            num2 == extract_numeric(Cleaned(sq.input2))
        IN  /\ (is_numeric_with_commas(Cleaned(sq.input1))
                 \/ is_numeric_with_commas(Cleaned(sq.input2)))
                => sq.score = (IF num1.none \/ num2.none THEN FALSE
                               ELSE compare_numeric(num1, num2))
            /\ (sq.input1 = <<"1", ",", "2", "3", "4">> /\ sq.input2 = <<"1", "2", "3", "4">>)
                => sq.score

C28_Witness ==
    /\ sq.pc = "scored"
    /\ sq.input1 = <<"1", ",", "2", "3", "4">>
    /\ sq.input2 = <<"1", "2", "3", "4">>
    /\ sq.score

\* A str that holds ';' or ','.
ListLike(input) == \E c \in {";", ","} : c \in ToSet(input)

\* C29: for two list-like inputs the score does not depend on which of them
\* is given first.
C29_ListComparisonSymmetric ==
    (sq.pc = "scored" /\ ListLike(sq.input1) /\ ListLike(sq.input2))
        => sq.score = question_scorer(sq.input2, sq.input1)

\* The ways of writing the items of a list in another order, with sep.
Reordered(items, sep) ==
    {join([i \in 1..Len(items) |-> items[f[i]]], sep) : f \in Permutations(1..Len(items))}

\* C30 as stated: for two inputs that hold a list separator, writing the items
\* of either in another order does not change the score, and two inputs made
\* of the same items score true.
C30_OrderInsensitive ==
    (sq.pc = "scored" /\ ListLike(sq.input1) /\ ListLike(sq.input2)) =>
        /\ \A other \in Reordered(sq.items1, sq.sep1) :
               question_scorer(other, sq.input2) = sq.score
        /\ \A other \in Reordered(sq.items2, sq.sep2) :
               question_scorer(sq.input1, other) = sq.score
        /\ sq.input2 \in Reordered(sq.items1, sq.sep2) => sq.score

\* The input is compared as a list: it holds a separator and does not match
\* the grouped-number pattern.
WrittenList(input) == ListLike(input) /\ ~is_numeric_with_commas(Cleaned(input))

\* C30, amended: the same, for inputs that are compared as lists, in the order
\* given and in the other order: none of them matches the grouped-number
\* pattern.
C30_OrderInsensitiveLists ==
    (sq.pc = "scored" /\ WrittenList(sq.input1) /\ WrittenList(sq.input2)) =>
        /\ \A other \in Reordered(sq.items1, sq.sep1) :
               WrittenList(other) => question_scorer(other, sq.input2) = sq.score
        /\ \A other \in Reordered(sq.items2, sq.sep2) :
               WrittenList(other) => question_scorer(sq.input1, other) = sq.score
        /\ sq.input2 \in Reordered(sq.items1, sq.sep2) => sq.score

C30_Witness ==
    /\ sq.pc = "scored"
    /\ sq.items1 = <<<<"1">>, <<"2", "3", "4">>>>
    /\ sq.items2 = <<<<"2", "3", "4">>, <<"1">>>>
    /\ sq.sep1 = <<";", " ">>
    /\ sq.sep2 = <<";", " ">>
    /\ WrittenList(sq.input1) /\ WrittenList(sq.input2)
    /\ sq.score

\* ---- compare_numeric ------------------------------------------------------------
\* The value of a number answer in ten-thousandths, and the number of digits
\* Python prints after its point (one for a whole number).
Units(answer) ==
    CASE answer = <<"1", ",", "2", "3", "4", ".", "5", "0">> -> 12345000
      [] answer = <<"1", "2", "3", "4", ".", "5">> -> 12345000
      [] answer = <<"0", ".", "0", "5">> -> 500
      [] answer = <<"0", ".", "0", "5", "0", "5">> -> 505
      [] answer = <<"1", "0", "0">> -> 1000000
      [] answer = <<"1", "0", "5">> -> 1050000
      [] answer = <<"1", "0", "1">> -> 1010000
      [] answer = <<"1", ".", "2", "4">> -> 12400
      [] answer = <<"1", ".", "2">> -> 12000
      [] answer = <<"0">> -> 0
      [] answer = <<"0", ".", "0", "0", "0", "1">> -> 1
      [] answer = <<"0", ".", "0", "0", "0", "2">> -> 2

Places(answer) ==
    CASE answer = <<"1", ",", "2", "3", "4", ".", "5", "0">> -> 1
      [] answer = <<"1", "2", "3", "4", ".", "5">> -> 1
      [] answer = <<"0", ".", "0", "5">> -> 2
      [] answer = <<"0", ".", "0", "5", "0", "5">> -> 4
      [] answer = <<"1", "0", "0">> -> 1
      [] answer = <<"1", "0", "5">> -> 1
      [] answer = <<"1", "0", "1">> -> 1
      [] answer = <<"1", ".", "2", "4">> -> 2
      [] answer = <<"1", ".", "2">> -> 1
      [] answer = <<"0">> -> 1
      [] answer = <<"0", ".", "0", "0", "0", "1">> -> 4
      [] answer = <<"0", ".", "0", "0", "0", "2">> -> 4

\* |a - b| is within a hundredth of the larger of the two, or within tolerance.
Within(a, b, tolerance) ==
    LET diff == IF a >= b THEN a - b ELSE b - a
    IN  100 * diff <= Max(a, b) \/ diff <= tolerance

\* a, in ten-thousandths, rounded to so many places.
RoundedTo(a, places) ==
    LET step == Power(10, 4 - places, 1, 10000)
    IN  ((2 * a + step) \div (2 * step)) * step

\* C31: two numbers score true when they are equal; two unequal numbers both
\* below 1 score true exactly when they are within relative 1e-2 or absolute
\* 1e-4 of each other; any other two exactly when they are equal after
\* rounding to the smaller of their printed precisions or within relative
\* 1e-2 or absolute 1e-2.  "1,234.50" against "1234.5" and "0.05" against
\* "0.0505" score true, "100" against "105" false.
C31_NumericTolerance ==
    (sq.pc = "scored" /\ sq.input1 \in NumberAnswers /\ sq.input2 \in NumberAnswers) =>
        LET a == Units(sq.input1)
            b == Units(sq.input2)
            round_to == Min(Places(sq.input1), Places(sq.input2))
        IN  /\ sq.score =
                   (IF a = b THEN TRUE
                    ELSE IF a < 10000 /\ b < 10000 THEN Within(a, b, 1)
                    ELSE \/ RoundedTo(a, round_to) = RoundedTo(b, round_to)
                         \/ Within(a, b, 100))
            /\ (sq.input1 = <<"1", ",", "2", "3", "4", ".", "5", "0">>
                    /\ sq.input2 = <<"1", "2", "3", "4", ".", "5">>) => sq.score
            /\ (sq.input1 = <<"0", ".", "0", "5">>
                    /\ sq.input2 = <<"0", ".", "0", "5", "0", "5">>) => sq.score
            /\ (sq.input1 = <<"1", "0", "0">> /\ sq.input2 = <<"1", "0", "5">>) => ~sq.score

C31_Witness ==
    /\ sq.pc = "scored"
    /\ sq.input1 = <<"0", ".", "0", "5">>
    /\ sq.input2 = <<"0", ".", "0", "5", "0", "5">>
    /\ sq.score

\* ---- compare_strings ------------------------------------------------------------
\* The words of a text answer: how many they are, and which.
WordCount(answer) ==
    CASE answer = <<"T", "a", "b", "l", "e", "t">> -> 1
      [] answer = <<"T", "a", "b", "l", "e", "t", " ", "s", "a", "l", "e", "s">> -> 2
      [] answer = <<"s", "a", "l", "e", "s">> -> 1
      [] answer = <<>> -> 0
      [] answer = <<"t", "a", "b", "l", "e", "t", " ", "s", "a", "l", "e", "s", " ", "a", " ", "a", " ", "a", " ", "a">> -> 6
      [] answer = <<"t", "a", "b", "l", "e", "t", " ", "s", "a", "l", "e", "s", " ", "a", " ", "a", " ", "a", " ", "b">> -> 6
      [] answer = <<"t", "a", "b", "l", "e", "t", " ", "s", "a", "l", "e", "s", " ", "a", " ", "a", " ", "a", " ", "a", "b">> -> 6

Words(answer) ==
    CASE answer = <<"T", "a", "b", "l", "e", "t">> -> {"tablet"}
      [] answer = <<"T", "a", "b", "l", "e", "t", " ", "s", "a", "l", "e", "s">> -> {"tablet", "sales"}
      [] answer = <<"s", "a", "l", "e", "s">> -> {"sales"}
      [] answer = <<>> -> {}
      [] answer = <<"t", "a", "b", "l", "e", "t", " ", "s", "a", "l", "e", "s", " ", "a", " ", "a", " ", "a", " ", "a">> -> {"tablet", "sales", "a"}
      [] answer = <<"t", "a", "b", "l", "e", "t", " ", "s", "a", "l", "e", "s", " ", "a", " ", "a", " ", "a", " ", "b">> -> {"tablet", "sales", "a", "b"}
      [] answer = <<"t", "a", "b", "l", "e", "t", " ", "s", "a", "l", "e", "s", " ", "a", " ", "a", " ", "a", " ", "a", "b">> -> {"tablet", "sales", "a", "ab"}

\* One set of words is within the other.
OneWithinOther(answer1, answer2) ==
    Words(answer1) \subseteq Words(answer2) \/ Words(answer2) \subseteq Words(answer1)

\* The ratio of matching characters of the two answers, as they are compared,
\* is above 0.95.
RatioAbove95(answer1, answer2) ==
    LET str1 == Cleaned(answer1)
        str2 == Cleaned(answer2)
    IN  200 * matches(str1, 1, Len(str1), str2, 1, Len(str2)) > 95 * (Len(str1) + Len(str2))

\* Two text answers that differ in their word characters are being compared.
ComparedAsStrings ==
    /\ sq.pc = "scored"
    /\ sq.input1 \in TextAnswers /\ sq.input2 \in TextAnswers
    /\ SelectSeq(Cleaned(sq.input1), LAMBDA c : c \in WordChars)
         # SelectSeq(Cleaned(sq.input2), LAMBDA c : c \in WordChars)

\* C32 as stated: when either input is a single word the score is whether one
\* set of words is within the other, and otherwise whether the ratio is above
\* 0.95.
C32_SubsetOrRatio ==
    ComparedAsStrings =>
        sq.score = (IF WordCount(sq.input1) = 1 \/ WordCount(sq.input2) = 1
                    THEN OneWithinOther(sq.input1, sq.input2)
                    ELSE RatioAbove95(sq.input1, sq.input2))

\* C32, amended: when either input is a single word and the other holds at
\* least one word, the score is whether one set of words is within the other
\* ("Tablet" against "Tablet sales" scores true); otherwise, also when an
\* input holds no word, it is whether the ratio is above 0.95: two phrases of
\* 20 characters with 19 matching, a ratio of exactly 0.95, score false, and a
\* phrase against itself with one more character at its end scores true.
C32_SubsetOrRatioOfWords ==
    ComparedAsStrings =>
        /\ sq.score = (IF /\ WordCount(sq.input1) = 1 \/ WordCount(sq.input2) = 1
                          /\ WordCount(sq.input1) > 0 /\ WordCount(sq.input2) > 0
                       THEN OneWithinOther(sq.input1, sq.input2)
                       ELSE RatioAbove95(sq.input1, sq.input2))
        /\ (sq.input1 = <<"T", "a", "b", "l", "e", "t">>
                /\ sq.input2 = <<"T", "a", "b", "l", "e", "t", " ", "s", "a", "l", "e", "s">>) => sq.score
        /\ (sq.input1 = <<"t", "a", "b", "l", "e", "t", " ", "s", "a", "l", "e", "s", " ", "a", " ", "a", " ", "a", " ", "a">>
                /\ sq.input2 = <<"t", "a", "b", "l", "e", "t", " ", "s", "a", "l", "e", "s", " ", "a", " ", "a", " ", "a", " ", "b">>)
              => /\ matches(sq.input1, 1, 20, sq.input2, 1, 20) = 19
                 /\ ~sq.score
        /\ (sq.input1 = <<"t", "a", "b", "l", "e", "t", " ", "s", "a", "l", "e", "s", " ", "a", " ", "a", " ", "a", " ", "a">>
                /\ sq.input2 = <<"t", "a", "b", "l", "e", "t", " ", "s", "a", "l", "e", "s", " ", "a", " ", "a", " ", "a", " ", "a", "b">>)
              => sq.score

C32_Witness ==
    /\ ComparedAsStrings
    /\ sq.input1 = <<"t", "a", "b", "l", "e", "t", " ", "s", "a", "l", "e", "s", " ", "a", " ", "a", " ", "a", " ", "a">>
    /\ sq.input2 = <<"t", "a", "b", "l", "e", "t", " ", "s", "a", "l", "e", "s", " ", "a", " ", "a", " ", "a", " ", "b">>
    /\ ~sq.score

\* ---- case and whitespace --------------------------------------------------------
\* The answer with the case of its letters changed, and with whitespace put
\* before and after it.
Swapcase(s) ==
    [i \in 1..Len(s) |->
        CASE s[i] = "a" -> "A" [] s[i] = "A" -> "a"
          [] s[i] = "t" -> "T" [] s[i] = "T" -> "t"
          [] OTHER -> s[i]]

Padded(s) == <<" ">> \o s \o <<" ", " ">>

Variants(s) == {s, Swapcase(s), Padded(s), Padded(Swapcase(s))}

\* C33: the score is a function of the two inputs, and it is the same for
\* the inputs with the case of their letters changed or with whitespace
\* before and after them.
C33_CaseAndWhitespaceInsensitive ==
    sq.pc = "scored" =>
        \A v1 \in Variants(sq.input1), v2 \in Variants(sq.input2) :
            question_scorer(v1, v2) = sq.score

C33_Witness ==
    /\ sq.pc = "scored"
    /\ sq.input1 = <<"T", "a", "b", "l", "e", "t">>
    /\ sq.input2 = <<"T", "a", "b", "l", "e", "t", " ", "s", "a", "l", "e", "s">>
    /\ sq.score
    /\ question_scorer(Padded(Swapcase(sq.input1)), Swapcase(sq.input2))

\* ---- get_directory_listing --------------------------------------------------------
\* C34: for a path that does not exist get_directory_listing returns a dict
\* whose status holds "error", with total_files 0 and no files; for a
\* directory that exists it returns status "success" and every file of the
\* dict has one of the four categories.  It never raises.
C34_ListingReturned ==
    ls.pc = "listed" =>
        /\ ~ls.listing.raised
        /\ ls.dir = "missing" =>
               /\ ListingError(ls.listing)
               /\ ls.listing.total_files = 0
               /\ ls.listing.files = <<>>
        /\ ls.dir # "missing" =>
               /\ ls.listing.status = <<"success">>
               /\ \A i \in DOMAIN ls.listing.files :
                      ls.listing.files[i].category
                          \in {"data", "documentation", "code", "other"}

\* ---- the cache under concurrent calls ---------------------------------------------
\* C35: every catalog_data_sources call that returned from the cache branch
\* for a path returned a catalog of that path.
C35_CacheHitIsForPath ==
    \A i \in DOMAIN lib_log :
        lib_log[i].outcome = "hit" => objs[lib_log[i].ret].ctx_path = lib_log[i].ctx_path

\* ---- a failed build and the cache -------------------------------------------------
\* C36: a catalog_data_sources call that ended in a directory error or in an
\* exception, forced or not, left the cached catalog and its path as they
\* were when it was called.
C36_FailedBuildLeavesCache ==
    \A i \in DOMAIN lib_log :
        lib_log[i].outcome \in {"error", "raised"} =>
            /\ lib_log[i].cached = lib_log[i].cached0
            /\ lib_log[i].cached_path = lib_log[i].cached_path0

C36_Witness ==
    \E i \in DOMAIN lib_log, j \in DOMAIN lib_log :
        /\ lib_log[i].force_refresh /\ lib_log[i].outcome = "error"
        /\ lib_log[i].cached0 # None /\ lib_log[i].cached = lib_log[i].cached0
        /\ lib_log[i].cached_path0 # lib_log[i].ctx_path
        /\ lib_log[i].cached_path = lib_log[i].cached_path0
        /\ lib_log[j].outcome = "raised" /\ lib_log[j].runs = lib_log[j].runs0 + 1
        /\ lib_log[j].cached0 # None /\ lib_log[j].cached = lib_log[j].cached0

\* ---- what solve_task writes --------------------------------------------------------
\* C37: no step of solve_task replaces a catalog that is in the shared state,
\* changes the domain knowledge of a task other than its own, or changes
\* shared_state["trajectories"], shared_state["execution_results"] or
\* message_history.
C37_SolveTaskFrame ==
    [][/\ shared_catalog' # shared_catalog => shared_catalog = None
       /\ \A k \in Tasks :
              domain_knowledge'[k] # domain_knowledge[k]
                  => \E t \in Threads : pc[t] = "st_store_knowledge" /\ st[t].task = k
       /\ UNCHANGED history_vars]_vars

C37_Witness ==
    /\ Len(solve_log) = 2
    /\ solve_log[1].returned /\ solve_log[2].returned
    /\ solve_log[1].cat = "built" /\ solve_log[2].cat = "reused"
    /\ shared_catalog # None
    /\ \A k \in Tasks : domain_knowledge[k] # "none"
    /\ trajectories = <<>> /\ execution_results = <<>> /\ message_history = <<>>

\* ---- read_only_open, the kind of the file opened ------------------------------------
\* C38: a read that read_only_open permits opens the file in the kind, text
\* or binary, of the mode it was given, by position or by keyword.
C38_KindFollowsMode ==
    (ro.raised = "none" /\ ro.opened # NoMode) =>
        LET mode == IF ro.pos # NoMode THEN ro.pos
                    ELSE IF ro.kw # NoMode THEN ro.kw
                    ELSE {"r"}
        IN  ("b" \in ro.opened) = ("b" \in mode)

\* The indices among the first total of the dataset that the claimed selection
\* keeps: the task's id is not in the answer log, and is in tasks_ids when
\* those are given.
Kept(r) ==
    {i \in 1..r.total :
        /\ StrVal(Data[i]) \notin r.logged0 /\ IntVal(Data[i]) \notin r.logged0
        /\ r.tasks_ids # NoTasksIds => Data[i] \in r.tasks_ids}

\* C39: the tasks a run selects are exactly the tasks among the first total
\* entries of the dataset whose task_id is not in the answer log and, when
\* tasks_ids is given, is in tasks_ids: each once, in dataset order, and
\* nothing beyond index total - 1.
C39_TasksToRun ==
    \A r \in {job} \cup {run_log[i] : i \in 1..Len(run_log)} :
        r.pc # "idle" =>
            /\ {r.tasks_to_run[n] : n \in 1..Len(r.tasks_to_run)}
                   = {Data[i] : i \in Kept(r)}
            /\ \A m, n \in 1..Len(r.tasks_to_run) :
                   m < n => r.tasks_to_run[m] < r.tasks_to_run[n]

\* C40: after every call of setup_smolagents_tracing, whatever enable_tracing,
\* force_reinit, the endpoint and a failure of the initialization are, the
\* returned value agrees with is_tracing_enabled(): it is True exactly when
\* tracing is initialized afterwards.
C40_ReturnAgreesWithEnabled ==
    tracing.pc = "returned" => (tracing.ret <=> is_tracing_enabled)

====
